---- MODULE Spec2Model ----
(***************************************************************************)
(* Model of the Oracle-backed memory store of zerooraclaw                  *)
(* (src/src/oracle/memory.rs): the ZERO_MEMORIES table, the MERGE upsert   *)
(* of store, the hybrid vector / keyword search of recall, get, list,      *)
(* forget and count, store calls running concurrently on one connection,   *)
(* and of the in-memory response cache (src/src/memory/response_cache.rs). *)
(*                                                                         *)
(* Text values (keys, contents, queries) are sequences of one-character    *)
(* strings, so that LOWER() and LIKE are computed character by character.  *)
(* Embedding vectors are integer pairs of norm 5, so that the cosine of    *)
(* two of them is exactly dot/25; distances and similarities are kept in   *)
(* hundredths (0.3 is 30, 0.5 is 50).                                      *)
(***************************************************************************)
EXTENDS Integers, Sequences, FiniteSets, TLC

VARIABLES
    rows,      \* the ZERO_MEMORIES table: a set of row records
    clock,     \* the database's CURRENT_TIMESTAMP at the latest MERGE
    nextId,    \* number of memory ids generated so far (Uuid::new_v4)
    last,      \* the last completed call: its arguments and what it returned
    calls,     \* the calls in flight: per task, its arguments and position
    cacheEntries, \* the response cache's map: cache key -> CacheEntry
    localNow,  \* the local clock the response cache reads, in minutes
    config     \* the response cache's ttl_minutes and max_entries

vars == <<rows, clock, nextId, last, calls, cacheEntries, localNow, config>>

memoryVars == <<rows, clock, nextId>>
cacheVars == <<cacheEntries, localNow, config>>

\* ---------------------------------------------------------------- bounds
MaxStores == 3         \* store calls per behaviour of SpecStore
MaxRecallStores == 2   \* store calls per behaviour of Spec
MaxLimit == 2          \* largest `limit` passed to recall
MaxApiStores == 2      \* store calls per behaviour of SpecApi
MaxAccess == 1         \* largest access_count a get call may start from
TicksPerSecond == 2    \* clock ticks per second of the formatted timestamps
NumTasks == 2          \* store calls running concurrently in SpecConc
NumGetters == 2        \* cache get calls running concurrently in SpecGets
MaxGetNow == 1         \* minutes the clock advances in SpecGets
NumPutters == 1        \* threads calling put in SpecPut
MaxPutNow == 1         \* minutes the clock advances in SpecPut
MaxAgentStores == 3    \* store calls in SpecAgents
NumConnTasks == 2      \* store, recall and get calls sharing the connection in SpecConn
MaxHitNow == 3         \* minutes the clock advances in SpecHit
MaxFieldLen == 2       \* bytes in a model name or a prompt given to cache_key
MaxNow == 2            \* minutes the response cache's clock advances in SpecCache
MaxHits == 1           \* largest hit_count a cache get may start from, plus one
MaxTtl == 2            \* largest ttl_minutes of the caches of SpecCache
MaxEntries == 2        \* largest max_entries of the caches of SpecCache
MaxLruNow == 1         \* minutes the clock advances in SpecLru

\* ---------------------------------------------------------------- values
None == "none"                 \* Option::None, SQL NULL (text values)
NoVector == <<>>               \* Option::None, SQL NULL (vector values)

MIN_SIMILARITY == 30           \* 0.3 in hundredths
KEYWORD_SCORE == 50            \* Some(0.5) in hundredths

Agents == {"agentA"}
Keys == {<<"k">>, <<"B">>}
Contents == {<<"a", "B">>, <<"c">>}
Queries == {<<>>, <<"b">>, <<"k">>, <<"_">>}
Sessions == {"s1"}
Vectors == {<<5, 0>>, <<-3, 4>>}     \* embeddings of stored contents
QueryVectors == {<<3, 4>>}          \* embeddings of queries: 0.6 and 0.28 similar

\* ---------------------------------------------------------------- text
\* to_ascii_lowercase / SQL LOWER on one character
LowerChar(c) ==
    CASE c = "A" -> "a"
      [] c = "B" -> "b"
      [] c = "K" -> "k"
      [] OTHER -> c

Lower(s) == [i \in 1..Len(s) |-> LowerChar(s[i])]

\* SQL `s LIKE p`: '%' matches any run of characters, '_' any one character
\* (LikeFrom: s from position i on against p from position j on)
RECURSIVE LikeFrom(_, _, _, _)
LikeFrom(s, p, i, j) ==
    IF j > Len(p) THEN i > Len(s)
    ELSE IF p[j] = "%"
         THEN LikeFrom(s, p, i, j + 1) \/ (i <= Len(s) /\ LikeFrom(s, p, i + 1, j))
         ELSE /\ i <= Len(s)
              /\ (p[j] = "_" \/ p[j] = s[i])
              /\ LikeFrom(s, p, i + 1, j + 1)

Like(s, p) == LikeFrom(s, p, 1, 1)

\* format!("%{query_str}%")
LikePattern(q) == <<"%">> \o q \o <<"%">>

\* variant: the comparison without LOWER()
KeywordMatchCaseSensitive(r, q) ==
    \/ Like(r.content, LikePattern(q))
    \/ Like(r.key, LikePattern(q))

\* the WHERE clause of the keyword query on one row
KeywordMatch(r, q) ==
    \/ Like(Lower(r.content), Lower(LikePattern(q)))
    \/ Like(Lower(r.key), Lower(LikePattern(q)))

\* ---------------------------------------------------------------- categories
Core == [kind |-> "Core"]
Daily == [kind |-> "Daily"]
Conversation == [kind |-> "Conversation"]
Custom(label) == [kind |-> "Custom", label |-> label]

Categories == {Core, Custom("notes")}

\* MemoryCategory's Display: the string bound to the category column
CategoryToString(cat) ==
    CASE cat.kind = "Core" -> "core"
      [] cat.kind = "Daily" -> "daily"
      [] cat.kind = "Conversation" -> "conversation"
      [] OTHER -> cat.label

\* to_ascii_lowercase on the category labels in use
LowerLabel(s) ==
    CASE s = "Core" -> "core"
      [] s = "CORE" -> "core"
      [] s = "Daily" -> "daily"
      [] s = "Conversation" -> "conversation"
      [] s = "Notes" -> "notes"
      [] OTHER -> s

parse_category(s) ==
    LET l == LowerLabel(s) IN
    CASE l = "core" -> Core
      [] l = "daily" -> Daily
      [] l = "conversation" -> Conversation
      [] OTHER -> Custom(l)

\* ---------------------------------------------------------------- vectors
Max(a, b) == IF a >= b THEN a ELSE b
Min(a, b) == IF a <= b THEN a ELSE b

Dot(u, v) == u[1] * v[1] + u[2] * v[2]

\* VECTOR_DISTANCE(embedding, q, COSINE) in hundredths: 1 - dot/(5*5)
VectorDistance(u, v) == 100 - 4 * Dot(u, v)

similarity_from_distance(distance) == Max(100 - distance, 0)

\* ---------------------------------------------------------------- rows
\* variant: the `agent_id = :2` condition left out
RowsOfAnyAgent(t, agent, key) == {r \in t : r.key = key}

RowsOf(t, agent, key) == {r \in t : r.key = key /\ r.agent_id = agent}

\* variant: a plain INSERT instead of the MERGE
MergeRowsAlwaysInsert(t, agent, key, content, cat_str, session_id, embedding, memory_id, now) ==
    t \cup {[memory_id |-> memory_id, agent_id |-> agent, key |-> key,
             content |-> content, category |-> cat_str,
             session_id |-> session_id, embedding |-> embedding,
             access_count |-> 0,
             created_at |-> now, updated_at |-> now]}

\* variant: DELETE followed by INSERT (the row is replaced, with the new id)
MergeRowsReplace(t, agent, key, content, cat_str, session_id, embedding, memory_id, now) ==
    {r \in t : ~(r.key = key /\ r.agent_id = agent)}
        \cup {[memory_id |-> memory_id, agent_id |-> agent, key |-> key,
                content |-> content, category |-> cat_str,
                session_id |-> session_id, embedding |-> embedding,
                access_count |-> 0,
             created_at |-> now, updated_at |-> now]}

\* variant: the UPDATE branch without `m.session_id = src.session_id`
MergeRowsKeepsSession(t, agent, key, content, cat_str, session_id, embedding, memory_id, now) ==
    IF RowsOf(t, agent, key) # {}
    THEN {IF r \in RowsOf(t, agent, key)
          THEN [r EXCEPT !.content = content,
                         !.category = cat_str,
                         !.embedding = IF embedding # NoVector THEN embedding ELSE @,
                         !.updated_at = now]
          ELSE r : r \in t}
    ELSE t \cup {[memory_id |-> memory_id, agent_id |-> agent, key |-> key,
                  content |-> content, category |-> cat_str,
                  session_id |-> session_id, embedding |-> embedding,
                  access_count |-> 0,
                  created_at |-> now, updated_at |-> now]}

\* variant: the ON clause without `m.key = src.key`
MergeRowsOnAgent(t, agent, key, content, cat_str, session_id, embedding, memory_id, now) ==
    IF \E r \in t : r.agent_id = agent
    THEN {IF r.agent_id = agent
          THEN [r EXCEPT !.content = content,
                         !.category = cat_str,
                         !.session_id = session_id,
                         !.embedding = IF embedding # NoVector THEN embedding ELSE @,
                         !.updated_at = now]
          ELSE r : r \in t}
    ELSE t \cup {[memory_id |-> memory_id, agent_id |-> agent, key |-> key,
                  content |-> content, category |-> cat_str,
                  session_id |-> session_id, embedding |-> embedding,
                  access_count |-> 0,
                  created_at |-> now, updated_at |-> now]}

\* the MERGE statement of store, with or without the embedding column
MergeRows(t, agent, key, content, cat_str, session_id, embedding, memory_id, now) ==
    IF RowsOf(t, agent, key) # {}
    THEN {IF r \in RowsOf(t, agent, key)
          THEN [r EXCEPT !.content = content,
                         !.category = cat_str,
                         !.session_id = session_id,
                         !.embedding = IF embedding # NoVector THEN embedding ELSE @,
                         !.updated_at = now]
          ELSE r : r \in t}
    ELSE t \cup {[memory_id |-> memory_id, agent_id |-> agent, key |-> key,
                  content |-> content, category |-> cat_str,
                  session_id |-> session_id, embedding |-> embedding,
                  access_count |-> 0,
             created_at |-> now, updated_at |-> now]}

\* Uuid::new_v4() of the n+1-th store call: differs from every id drawn before
NewMemoryId(n) == n + 1

\* variant: a failed embedding request fails the store
StoreOkNeedsEmbedding(embedding, dbOk) == dbOk /\ embedding # NoVector

\* store's return value: Err only from the lock, execute or commit
StoreOk(embedding, dbOk) == dbOk

\* variant: the DELETE without its `key = :1` condition
DeleteRowsOfAgent(t, agent, key) == {r \in t : r.agent_id # agent}

\* the DELETE statement of forget
DeleteRows(t, agent, key) == t \ RowsOf(t, agent, key)

\* ---------------------------------------------------------------- queries
\* all orders of S that are ascending in rank (ties in any order)
RECURSIVE SortedSeqs(_, _)
SortedSeqs(S, rank) ==
    IF S = {} THEN {<<>>}
    ELSE UNION {{<<r>> \o t : t \in SortedSeqs(S \ {r}, rank)} :
                r \in {x \in S : \A y \in S : rank[x] <= rank[y]}}

\* variant: the query without its FETCH FIRST clause
FetchAll(s, n) == s

\* FETCH FIRST n ROWS ONLY
FetchFirst(s, n) == SubSeq(s, 1, Min(n, Len(s)))

\* `AND session_id = :sid`, present only when a session filter is given
SessionMatch(r, session_id) == session_id = None \/ r.session_id = session_id

\* rows the vector query ranks
VectorCandidates(t, agent, session_id) ==
    {r \in t : /\ r.agent_id = agent
               /\ r.embedding # NoVector
               /\ SessionMatch(r, session_id)}

\* rows the keyword query selects
KeywordCandidates(t, agent, q, session_id) ==
    {r \in t : /\ r.agent_id = agent
               /\ KeywordMatch(r, q)
               /\ SessionMatch(r, session_id)}

\* variant: the vector query without its ORDER BY clause
VectorQueryUnordered(t, agent, qvec, limit, session_id) ==
    LET C == VectorCandidates(t, agent, session_id) IN
    {FetchFirst(s, limit) : s \in SortedSeqs(C, [r \in C |-> 0])}

\* possible answers of the vector query: ORDER BY dist ASC FETCH FIRST limit
VectorQuery(t, agent, qvec, limit, session_id) ==
    LET C == VectorCandidates(t, agent, session_id) IN
    {FetchFirst(s, limit) :
        s \in SortedSeqs(C, [r \in C |-> VectorDistance(r.embedding, qvec)])}

\* possible answers of the keyword query: ORDER BY updated_at DESC FETCH FIRST limit
KeywordQuery(t, agent, q, limit, session_id) ==
    LET C == KeywordCandidates(t, agent, q, session_id) IN
    {FetchFirst(s, limit) : s \in SortedSeqs(C, [r \in C |-> 0 - r.updated_at])}

\* TO_CHAR(t, 'YYYY-MM-DD"T"HH24:MI:SS'): the timestamp cut to whole seconds
TO_CHAR(t) == t \div TicksPerSecond

\* row_to_entry, with the score the caller fills in; the timestamp column of
\* every SELECT is TO_CHAR(created_at, ...)
row_to_entry(r, score) ==
    [id |-> r.memory_id, key |-> r.key, content |-> r.content,
     category |-> parse_category(r.category), timestamp |-> TO_CHAR(r.created_at),
     session_id |-> r.session_id, score |-> score]

\* variant: the vector loop without the threshold test
PassesThresholdAlways(similarity) == TRUE

\* the similarity test of the vector loop: rows below the threshold are skipped
PassesThreshold(similarity) == ~(similarity < MIN_SIMILARITY)

\* the vector loop of recall over the fetched rows
RECURSIVE VectorEntries(_, _)
VectorEntries(fetched, qvec) ==
    IF fetched = <<>> THEN <<>>
    ELSE LET r == Head(fetched)
             similarity == similarity_from_distance(VectorDistance(r.embedding, qvec))
         IN (IF PassesThreshold(similarity)
             THEN <<row_to_entry(r, similarity)>>
             ELSE <<>>) \o VectorEntries(Tail(fetched), qvec)

\* the keyword loop of recall over the fetched rows
KeywordEntries(fetched) ==
    [i \in 1..Len(fetched) |-> row_to_entry(fetched[i], KEYWORD_SCORE)]

\* variant: the keyword query runs after every vector query
RunsFallbackAlways(entries) == TRUE

\* `if entries.is_empty()`: the keyword fallback runs only then
RunsFallback(entries) == entries = <<>>

\* the body of recall once the two query answers are fixed: the keyword
\* entries are pushed onto the same list the vector loop filled
RecallEntries(vectorRows, keywordRows, qvec) ==
    LET entries == IF qvec # NoVector THEN VectorEntries(vectorRows, qvec) ELSE <<>>
    IN entries \o (IF RunsFallback(entries) THEN KeywordEntries(keywordRows) ELSE <<>>)

\* recall's return value: Err only from the lock or a failed query
RecallOk(qvec, dbOk) == dbOk

\* no category filter (Option::None of list's first argument)
NoCategory == [kind |-> "None"]

\* outcomes of get's best-effort UPDATE of access_count and of its commit
BumpOutcomes == {"ok", "execute_failed", "commit_failed"}

\* UPDATE ZERO_MEMORIES SET access_count = access_count + 1 WHERE key, agent
BumpAccess(t, agent, key) ==
    {IF r \in RowsOf(t, agent, key) THEN [r EXCEPT !.access_count = @ + 1] ELSE r :
        r \in t}

\* variant: the errors of the access-counter update are propagated with `?`
GetOkNeedsBump(found, bump, dbOk) == dbOk /\ (found => bump = "ok")

\* get's return value: Err only from the lock or a failed SELECT; the results
\* of the UPDATE and of its commit are dropped (`let _ =`)
GetOk(found, bump, dbOk) == dbOk

\* the rows list selects: agent, optional category, optional session
ListCandidates(t, agent, category, session_id) ==
    {r \in t : /\ r.agent_id = agent
               /\ (category = NoCategory \/ r.category = CategoryToString(category))
               /\ SessionMatch(r, session_id)}

\* possible answers of list's query: ORDER BY updated_at DESC, no row limit
ListQuery(t, agent, category, session_id) ==
    LET C == ListCandidates(t, agent, category, session_id) IN
    SortedSeqs(C, [r \in C |-> 0 - r.updated_at])

\* list's loop over the fetched rows: row_to_entry, no score
ListEntries(fetched) ==
    [i \in 1..Len(fetched) |-> row_to_entry(fetched[i], None)]

\* variant: COUNT(embedding), which skips the rows whose embedding is NULL
CountRowsWithEmbedding(t, agent) ==
    Cardinality({r \in t : r.agent_id = agent /\ r.embedding # NoVector})

\* SELECT COUNT(*) FROM ZERO_MEMORIES WHERE agent_id = :1
CountRows(t, agent) == Cardinality({r \in t : r.agent_id = agent})

\* ---------------------------------------------------------------- response cache
\* now - Duration::minutes(ttl_minutes)
Cutoff(t, ttl_minutes) == t - ttl_minutes

\* variant: an entry counts as live up to and including its expiry instant
LiveInclusive(entry, cutoff) == entry.created_at >= cutoff

\* get's test `entry.created_at > cutoff`
Live(entry, cutoff) == entry.created_at > cutoff

\* variant: a put on a present key keeps the hits the old entry collected
InsertedKeepsHits(c, key, entry) ==
    [k \in DOMAIN c \cup {key} |->
        IF k = key
        THEN (IF key \in DOMAIN c THEN [entry EXCEPT !.hit_count = c[key].hit_count]
              ELSE entry)
        ELSE c[k]]

\* entries.insert(key, entry): insert or replace
Inserted(c, key, entry) ==
    [k \in DOMAIN c \cup {key} |-> IF k = key THEN entry ELSE c[k]]

\* variant: remove leaves the map as it is
RemovedNothing(c, key) == c

\* entries.remove(key)
Removed(c, key) == [k \in DOMAIN c \ {key} |-> c[k]]

\* variant: the sweep keeps the entries created exactly at the cutoff
RetainInclusive(c, cutoff) ==
    [k \in {j \in DOMAIN c : c[j].created_at >= cutoff} |-> c[k]]

\* entries.retain(|_, entry| entry.created_at > cutoff)
Retain(c, cutoff) == [k \in {j \in DOMAIN c : c[j].created_at > cutoff} |-> c[k]]

\* variant: the oldest entry by creation is taken for the least recently used
LruKeysByCreation(c) ==
    {k \in DOMAIN c : \A j \in DOMAIN c : c[k].created_at <= c[j].created_at}

\* the keys min_by_key(accessed_at) may return: which of several entries
\* with the least accessed_at comes first depends on the map's iteration order
LruKeys(c) ==
    {k \in DOMAIN c : \A j \in DOMAIN c : c[k].accessed_at <= c[j].accessed_at}

\* variant: max_entries = 0 taken to mean "no limit"
OverCapacityUnlessZero(len, max_entries) == max_entries > 0 /\ len > max_entries

\* variant: the loop condition compared against max_entries + 1
OverCapacityByTwo(len, max_entries) == len > max_entries + 1

\* the LRU loop's condition `entries.len() > self.max_entries`
OverCapacity(len, max_entries) == len > max_entries

\* the maps the LRU loop of put may end with
RECURSIVE EvictLru(_, _)
EvictLru(c, max_entries) ==
    IF OverCapacity(Cardinality(DOMAIN c), max_entries) /\ DOMAIN c # {}
    THEN UNION {EvictLru(Removed(c, k), max_entries) : k \in LruKeys(c)}
    ELSE {c}

\* variant: the tokens of every entry, whether it was hit or not
TokensSavedPerEntry(entry) == entry.token_count

\* u64::from(e.token_count) * e.hit_count
TokensSaved(entry) == entry.token_count * entry.hit_count

\* sum of f[k] over the keys in S
RECURSIVE SumOver(_, _)
SumOver(f, S) ==
    IF S = {} THEN 0
    ELSE LET k == CHOOSE x \in S : TRUE IN f[k] + SumOver(f, S \ {k})

\* ---------------------------------------------------------------- actions
NoCalls == <<>>
NoEntries == <<>>
DefaultConfig == [ttl_minutes |-> 1, max_entries |-> 1]

Init ==
    /\ rows = {}
    /\ clock = 0
    /\ nextId = 0
    /\ last = [op |-> "init"]
    /\ calls = NoCalls
    /\ cacheEntries = NoEntries
    /\ localNow = 0
    /\ config = DefaultConfig

\* store(key, content, category, session_id); embedding is what embed_one
\* returned (NoVector when it failed), dbOk whether the backing store
\* answered.  A fresh uuid is drawn on every call; CURRENT_TIMESTAMP has
\* moved on since the previous MERGE of this connection.
Store(agent, key, content, category, session_id, embedding, dbOk) ==
    /\ nextId' = nextId + 1
    /\ clock' = clock + 1
    /\ rows' = IF dbOk
               THEN MergeRows(rows, agent, key, content, CategoryToString(category),
                              session_id, embedding, NewMemoryId(nextId), clock + 1)
               ELSE rows
    /\ last' = [op |-> "store", agent |-> agent, key |-> key, content |-> content,
                category |-> category, session_id |-> session_id,
                embedding |-> embedding, dbOk |-> dbOk,
                ok |-> StoreOk(embedding, dbOk), memory_id |-> NewMemoryId(nextId)]
    /\ UNCHANGED <<calls, cacheVars>>

\* forget(key)
Forget(agent, key, dbOk) ==
    /\ rows' = IF dbOk THEN DeleteRows(rows, agent, key) ELSE rows
    /\ last' = [op |-> "forget", agent |-> agent, key |-> key, dbOk |-> dbOk,
                ok |-> dbOk,
                deleted |-> dbOk /\ RowsOf(rows, agent, key) # {}]
    /\ UNCHANGED <<clock, nextId, calls, cacheVars>>

\* recall(query, limit, session_id); qvec is what embed_one returned for the
\* query (NoVector when it failed)
Recall(agent, query, limit, session_id, qvec, dbOk) ==
    /\ \E vectorRows \in (IF qvec # NoVector
                          THEN VectorQuery(rows, agent, qvec, limit, session_id)
                          ELSE {<<>>}),
          keywordRows \in KeywordQuery(rows, agent, query, limit, session_id) :
         LET vec == IF qvec # NoVector THEN VectorEntries(vectorRows, qvec) ELSE <<>>
         IN last' = [op |-> "recall", agent |-> agent, query |-> query,
                     limit |-> limit, session_id |-> session_id, qvec |-> qvec,
                     dbOk |-> dbOk, ok |-> RecallOk(qvec, dbOk),
                     path |-> IF vec = <<>> THEN "keyword" ELSE "vector",
                     entries |-> IF dbOk
                                 THEN RecallEntries(vectorRows, keywordRows, qvec)
                                 ELSE <<>>]
    /\ UNCHANGED <<memoryVars, calls, cacheVars>>

\* ---- store calls running concurrently on one OracleMemory.  A call runs
\* up to its first await, then the embedding request (a blocking closure
\* holding the connection lock), then the MERGE and commit (another blocking
\* closure holding the lock from its first statement to its return).
\* StoreEmbed: the call draws its uuid and its embedding request completes
StoreEmbed(p, embedding) ==
    /\ calls[p].pc = "start"
    /\ calls' = [calls EXCEPT ![p].pc = "embedded",
                              ![p].embedding = embedding,
                              ![p].memory_id = NewMemoryId(nextId)]
    /\ nextId' = nextId + 1
    /\ UNCHANGED <<rows, clock, last, cacheVars>>

\* StoreWrite: the blocking closure of the call: lock, MERGE, commit, unlock
StoreWrite(p, dbOk) ==
    LET c == calls[p] IN
    /\ c.pc = "embedded"
    /\ clock' = clock + 1
    /\ rows' = IF dbOk
               THEN MergeRows(rows, c.agent, c.key, c.content,
                              CategoryToString(c.category), c.session_id,
                              c.embedding, c.memory_id, clock + 1)
               ELSE rows
    /\ calls' = [calls EXCEPT ![p].pc = "done",
                              ![p].ok = StoreOk(c.embedding, dbOk),
                              ![p].at = clock + 1]
    /\ last' = [op |-> "store", agent |-> c.agent, key |-> c.key,
                content |-> c.content, category |-> c.category,
                session_id |-> c.session_id, embedding |-> c.embedding,
                dbOk |-> dbOk, ok |-> StoreOk(c.embedding, dbOk),
                memory_id |-> c.memory_id]
    /\ UNCHANGED <<nextId, cacheVars>>

\* get(key); bump is the outcome of the access-counter update that follows a
\* found row.  After "commit_failed" the UPDATE stays pending on the one
\* connection every call shares, so later calls see the incremented counter.
Get(agent, key, bump, dbOk) ==
    LET found == RowsOf(rows, agent, key) # {} IN
    /\ \E r \in (IF dbOk /\ found THEN RowsOf(rows, agent, key) ELSE {None}) :
          last' = [op |-> "get", agent |-> agent, key |-> key, dbOk |-> dbOk,
                   bump |-> IF dbOk /\ found THEN bump ELSE None,
                   ok |-> GetOk(found, bump, dbOk),
                   found |-> GetOk(found, bump, dbOk) /\ found,
                   entry |-> IF GetOk(found, bump, dbOk) /\ found
                             THEN row_to_entry(r, None) ELSE None]
    /\ rows' = IF dbOk /\ found /\ bump # "execute_failed"
               THEN BumpAccess(rows, agent, key)
               ELSE rows
    /\ UNCHANGED <<clock, nextId, calls, cacheVars>>

\* list(category, session_id)
List(agent, category, session_id, dbOk) ==
    /\ \E fetched \in ListQuery(rows, agent, category, session_id) :
          last' = [op |-> "list", agent |-> agent, category |-> category,
                   session_id |-> session_id, dbOk |-> dbOk, ok |-> dbOk,
                   entries |-> IF dbOk THEN ListEntries(fetched) ELSE <<>>]
    /\ UNCHANGED <<memoryVars, calls, cacheVars>>

\* count()
Count(agent, dbOk) ==
    /\ last' = [op |-> "count", agent |-> agent, dbOk |-> dbOk, ok |-> dbOk,
                count |-> IF dbOk THEN CountRows(rows, agent) ELSE 0]
    /\ UNCHANGED <<memoryVars, calls, cacheVars>>

\* variant: the LRU loop runs before the sweep of the expired entries
CachePutEvictsBeforeSweep(key, model, response, token_count) ==
    LET cutoff == Cutoff(localNow, config.ttl_minutes)
        entry == [model |-> model, response |-> response,
                  token_count |-> token_count, created_at |-> localNow,
                  accessed_at |-> localNow, hit_count |-> 0]
        inserted == Inserted(cacheEntries, key, entry)
    IN /\ \E evictedTo \in EvictLru(inserted, config.max_entries) :
            /\ cacheEntries' = Retain(evictedTo, cutoff)
            /\ last' = [op |-> "cache_put", key |-> key, model |-> model,
                        response |-> response, token_count |-> token_count,
                        now |-> localNow, replaced |-> key \in DOMAIN cacheEntries,
                        swept |-> Cardinality(DOMAIN evictedTo)
                                    - Cardinality(DOMAIN cacheEntries'),
                        evicted |-> Cardinality(DOMAIN inserted)
                                      - Cardinality(DOMAIN evictedTo),
                        ok |-> TRUE]
       /\ UNCHANGED <<memoryVars, calls, localNow, config>>

\* ResponseCache::put(key, model, response, token_count)
CachePut(key, model, response, token_count) ==
    LET cutoff == Cutoff(localNow, config.ttl_minutes)
        entry == [model |-> model, response |-> response,
                  token_count |-> token_count, created_at |-> localNow,
                  accessed_at |-> localNow, hit_count |-> 0]
        inserted == Inserted(cacheEntries, key, entry)
        kept == Retain(inserted, cutoff)
    IN /\ cacheEntries' \in EvictLru(kept, config.max_entries)
       /\ last' = [op |-> "cache_put", key |-> key, model |-> model,
                   response |-> response, token_count |-> token_count,
                   now |-> localNow, replaced |-> key \in DOMAIN cacheEntries,
                   swept |-> Cardinality(DOMAIN inserted) - Cardinality(DOMAIN kept),
                   evicted |-> Cardinality(DOMAIN kept) - Cardinality(DOMAIN cacheEntries'),
                   ok |-> TRUE]
       /\ UNCHANGED <<memoryVars, calls, localNow, config>>

\* variant: a hit counts but does not refresh accessed_at
CacheGetKeepsAccessTime(key) ==
    LET cutoff == Cutoff(localNow, config.ttl_minutes)
        present == key \in DOMAIN cacheEntries
        hit == present /\ Live(cacheEntries[key], cutoff)
    IN /\ cacheEntries' =
             IF hit
             THEN [cacheEntries EXCEPT ![key].hit_count = @ + 1]
             ELSE IF present THEN Removed(cacheEntries, key)
             ELSE cacheEntries
       /\ last' = [op |-> "cache_get", key |-> key, ok |-> TRUE, hit |-> hit,
                   removed |-> present /\ ~hit,
                   response |-> IF hit THEN cacheEntries[key].response ELSE None]
       /\ UNCHANGED <<memoryVars, calls, localNow, config>>

\* variant: a hit renews the entry's created_at
CacheGetRenews(key) ==
    LET cutoff == Cutoff(localNow, config.ttl_minutes)
        present == key \in DOMAIN cacheEntries
        hit == present /\ Live(cacheEntries[key], cutoff)
    IN /\ cacheEntries' =
             IF hit
             THEN [cacheEntries EXCEPT ![key].hit_count = @ + 1,
                                       ![key].accessed_at = localNow,
                                       ![key].created_at = localNow]
             ELSE IF present THEN Removed(cacheEntries, key)
             ELSE cacheEntries
       /\ last' = [op |-> "cache_get", key |-> key, ok |-> TRUE, hit |-> hit,
                   removed |-> present /\ ~hit,
                   response |-> IF hit THEN cacheEntries[key].response ELSE None]
       /\ UNCHANGED <<memoryVars, calls, localNow, config>>

\* variant: a miss on an expired key sweeps every expired entry
CacheGetSweepsExpired(key) ==
    LET cutoff == Cutoff(localNow, config.ttl_minutes)
        present == key \in DOMAIN cacheEntries
        hit == present /\ Live(cacheEntries[key], cutoff)
    IN /\ cacheEntries' =
             IF hit
             THEN [cacheEntries EXCEPT ![key].hit_count = @ + 1,
                                       ![key].accessed_at = localNow]
             ELSE IF present THEN Retain(cacheEntries, cutoff)
             ELSE cacheEntries
       /\ last' = [op |-> "cache_get", key |-> key, ok |-> TRUE, hit |-> hit,
                   removed |-> present /\ ~hit,
                   response |-> IF hit THEN cacheEntries[key].response ELSE None]
       /\ UNCHANGED <<memoryVars, calls, localNow, config>>

\* ResponseCache::get(key)
CacheGet(key) ==
    LET cutoff == Cutoff(localNow, config.ttl_minutes)
        present == key \in DOMAIN cacheEntries
        hit == present /\ Live(cacheEntries[key], cutoff)
    IN /\ cacheEntries' =
             IF hit
             THEN [cacheEntries EXCEPT ![key].hit_count = @ + 1,
                                       ![key].accessed_at = localNow]
             ELSE IF present THEN Removed(cacheEntries, key)
             ELSE cacheEntries
       /\ last' = [op |-> "cache_get", key |-> key, ok |-> TRUE, hit |-> hit,
                   removed |-> present /\ ~hit,
                   response |-> IF hit THEN cacheEntries[key].response ELSE None]
       /\ UNCHANGED <<memoryVars, calls, localNow, config>>

\* ---- store, recall and get calls sharing the one connection
\* (Arc<Mutex<Connection>>) of OracleMemory and its OracleEmbedding.  Every
\* blocking closure locks the connection first and drops the guard when it
\* returns; guard names the closure of the call that holds the lock.
ConnFree(cs) == \A q \in DOMAIN cs : cs[q].guard = "none"

\* variant: the connection stays locked while the call goes on to its own
\* statement
EmbedReturnedKeepsGuard(c, embedding) ==
    [c EXCEPT !.pc = "embedded", !.embedding = embedding, !.embedded = TRUE]

\* the call once the closure of embed has returned: the embedding (NoVector
\* after an error), the guard dropped
EmbedReturned(c, embedding) ==
    [c EXCEPT !.pc = "embedded", !.embedding = embedding, !.embedded = TRUE,
              !.guard = "none"]

\* store or recall up to the lock() inside the embedding request: store has
\* drawn its uuid
EmbedAcquire(p) ==
    LET c == calls[p] IN
    /\ c.pc = "start"
    /\ c.op \in {"store", "recall"}
    /\ ConnFree(calls)
    /\ calls' = [calls EXCEPT ![p].pc = "embedding", ![p].guard = "embed",
                              ![p].memory_id = IF c.op = "store"
                                               THEN NewMemoryId(nextId) ELSE 0]
    /\ nextId' = IF c.op = "store" THEN nextId + 1 ELSE nextId
    /\ UNCHANGED <<rows, clock, last, cacheVars>>

\* the embedding request completes and embed_one(..).await returns
EmbedReturn(p, embedding) ==
    /\ calls[p].pc = "embedding"
    /\ calls' = [calls EXCEPT ![p] = EmbedReturned(calls[p], embedding)]
    /\ UNCHANGED <<memoryVars, last, cacheVars>>

\* conn.lock() of the call's own blocking closure; get has no embedding
DbAcquire(p) ==
    LET c == calls[p] IN
    /\ c.pc = "embedded" \/ (c.pc = "start" /\ c.op = "get")
    /\ ConnFree(calls)
    /\ calls' = [calls EXCEPT ![p].pc = "db", ![p].guard = "db"]
    /\ UNCHANGED <<memoryVars, last, cacheVars>>

\* store's closure: MERGE, commit, return
DbReturnStore(p, dbOk) ==
    LET c == calls[p] IN
    /\ c.pc = "db" /\ c.op = "store"
    /\ clock' = clock + 1
    /\ rows' = IF dbOk
               THEN MergeRows(rows, c.agent, c.key, c.content,
                              CategoryToString(c.category), c.session_id,
                              c.embedding, c.memory_id, clock + 1)
               ELSE rows
    /\ calls' = [calls EXCEPT ![p].pc = "done", ![p].guard = "none",
                              ![p].ok = StoreOk(c.embedding, dbOk)]
    /\ last' = [op |-> "store", agent |-> c.agent, key |-> c.key,
                content |-> c.content, category |-> c.category,
                session_id |-> c.session_id, embedding |-> c.embedding,
                dbOk |-> dbOk, ok |-> StoreOk(c.embedding, dbOk),
                memory_id |-> c.memory_id]
    /\ UNCHANGED <<nextId, cacheVars>>

\* recall's closure: the vector query, the keyword query, return
DbReturnRecall(p, limit, dbOk) ==
    LET c == calls[p] IN
    /\ c.pc = "db" /\ c.op = "recall"
    /\ \E vectorRows \in (IF c.embedding # NoVector
                          THEN VectorQuery(rows, c.agent, c.embedding, limit, c.session_id)
                          ELSE {<<>>}),
          keywordRows \in KeywordQuery(rows, c.agent, c.key, limit, c.session_id) :
         LET vec == IF c.embedding # NoVector
                    THEN VectorEntries(vectorRows, c.embedding) ELSE <<>>
         IN last' = [op |-> "recall", agent |-> c.agent, query |-> c.key,
                     limit |-> limit, session_id |-> c.session_id,
                     qvec |-> c.embedding, dbOk |-> dbOk,
                     ok |-> RecallOk(c.embedding, dbOk),
                     path |-> IF vec = <<>> THEN "keyword" ELSE "vector",
                     entries |-> IF dbOk
                                 THEN RecallEntries(vectorRows, keywordRows, c.embedding)
                                 ELSE <<>>]
    /\ calls' = [calls EXCEPT ![p].pc = "done", ![p].guard = "none",
                              ![p].ok = RecallOk(c.embedding, dbOk)]
    /\ UNCHANGED <<memoryVars, cacheVars>>

\* get's closure: the SELECT, the access-counter update, return
DbReturnGet(p, bump, dbOk) ==
    LET c == calls[p]
        found == RowsOf(rows, c.agent, c.key) # {}
    IN
    /\ c.pc = "db" /\ c.op = "get"
    /\ \E r \in (IF dbOk /\ found THEN RowsOf(rows, c.agent, c.key) ELSE {None}) :
          last' = [op |-> "get", agent |-> c.agent, key |-> c.key, dbOk |-> dbOk,
                   bump |-> IF dbOk /\ found THEN bump ELSE None,
                   ok |-> GetOk(found, bump, dbOk),
                   found |-> GetOk(found, bump, dbOk) /\ found,
                   entry |-> IF GetOk(found, bump, dbOk) /\ found
                             THEN row_to_entry(r, None) ELSE None]
    /\ rows' = IF dbOk /\ found /\ bump # "execute_failed"
               THEN BumpAccess(rows, c.agent, c.key)
               ELSE rows
    /\ calls' = [calls EXCEPT ![p].pc = "done", ![p].guard = "none",
                              ![p].ok = GetOk(found, bump, dbOk)]
    /\ UNCHANGED <<clock, nextId, cacheVars>>

\* ---- ResponseCache::cache_key: strings are sequences of one-byte characters
KeyAlphabet == {"a", "|"}

\* as_bytes() of one character
ByteOf(c) == CASE c = "a" -> 97 [] c = "|" -> 124

\* Option<&str>
NoPrompt == [some |-> FALSE, text |-> <<>>]

SomePrompt(s) == [some |-> TRUE, text |-> s]

\* variant: the user prompt is left out of the hash
KeyBytesWithoutUser(model, system_prompt, user_prompt) ==
    model \o <<"|">>
          \o (IF system_prompt.some THEN system_prompt.text ELSE <<>>)
          \o <<"|">>

\* the bytes fed to the hasher by the update calls, in order
KeyBytes(model, system_prompt, user_prompt) ==
    model \o <<"|">>
          \o (IF system_prompt.some THEN system_prompt.text ELSE <<>>)
          \o <<"|">>
          \o user_prompt

\* Sha256 finalize(): 32 bytes. The digest is taken as collision-free: it is
\* modelled by an injective encoding of inputs of at most 31 bytes (the
\* length, the bytes, zero padding)
Sha256(bytes) ==
    [i \in 1..32 |-> IF i = 1 THEN Len(bytes)
                     ELSE IF i - 1 <= Len(bytes) THEN ByteOf(bytes[i - 1])
                     ELSE 0]

HexDigits == <<"0", "1", "2", "3", "4", "5", "6", "7",
               "8", "9", "a", "b", "c", "d", "e", "f">>

\* {:x} of a byte array: two lower-case hex digits per byte
RECURSIVE LowerHex(_)
LowerHex(hash) ==
    IF hash = <<>> THEN <<>>
    ELSE <<HexDigits[(Head(hash) \div 16) + 1], HexDigits[(Head(hash) % 16) + 1]>>
             \o LowerHex(Tail(hash))

\* format!("{:064x}", s): zero-padded on the left to 64 characters
RECURSIVE PadLeft64(_)
PadLeft64(s) == IF Len(s) >= 64 THEN s ELSE PadLeft64(<<"0">> \o s)

cache_key(model, system_prompt, user_prompt) ==
    PadLeft64(LowerHex(Sha256(KeyBytes(model, system_prompt, user_prompt))))

\* one call of cache_key
CacheKeyCall(model, system_prompt, user_prompt) ==
    /\ last' = [op |-> "cache_key", model |-> model,
                system_prompt |-> system_prompt, user_prompt |-> user_prompt,
                bytes |-> KeyBytes(model, system_prompt, user_prompt),
                key |-> cache_key(model, system_prompt, user_prompt)]
    /\ UNCHANGED <<memoryVars, calls, cacheVars>>

\* ---- get calls running concurrently on one ResponseCache: a call reads
\* the clock, takes the lock of the map, looks its key up, updates or
\* removes the entry, and releases the lock on return
\* variant: no mutual exclusion between the calls
LockFreeAlways(cs) == TRUE

\* the map's Mutex is free: no call is between lock() and its return
LockFree(cs) == \A q \in DOMAIN cs : cs[q].pc # "locked"

\* let now = Local::now(); let cutoff = now - ttl
GetStart(p) ==
    /\ calls[p].pc = "start"
    /\ calls' = [calls EXCEPT ![p].pc = "waiting", ![p].now = localNow]
    /\ UNCHANGED <<memoryVars, last, cacheVars>>

\* self.entries.lock(), entries.get_mut(key) and the read of the entry
GetLock(p) ==
    LET c == calls[p]
        present == c.key \in DOMAIN cacheEntries
        hit == present /\ Live(cacheEntries[c.key], Cutoff(c.now, config.ttl_minutes))
    IN /\ c.pc = "waiting"
       /\ LockFree(calls)
       /\ calls' = [calls EXCEPT ![p].pc = "locked",
                                 ![p].present = present,
                                 ![p].hit = hit,
                                 ![p].seen = IF present THEN cacheEntries[c.key].hit_count
                                             ELSE 0,
                                 ![p].response = IF hit THEN cacheEntries[c.key].response
                                                 ELSE None]
       /\ UNCHANGED <<memoryVars, last, cacheVars>>

\* the writes of get, its return value, and the release of the lock
GetFinish(p) ==
    LET c == calls[p] IN
    /\ c.pc = "locked"
    /\ cacheEntries' =
          IF c.key \notin DOMAIN cacheEntries THEN cacheEntries
          ELSE IF c.hit
          THEN [cacheEntries EXCEPT ![c.key].hit_count = c.seen + 1,
                                    ![c.key].accessed_at = c.now]
          ELSE IF c.present THEN Removed(cacheEntries, c.key)
          ELSE cacheEntries
    /\ calls' = [calls EXCEPT ![p].pc = "done"]
    /\ last' = [op |-> "cache_get", key |-> c.key, ok |-> TRUE, hit |-> c.hit,
                removed |-> c.present /\ ~c.hit, response |-> c.response]
    /\ UNCHANGED <<memoryVars, localNow, config>>

\* ---- put calls step by step: a call reads the clock, takes the lock of
\* the map, inserts and sweeps, runs the LRU loop one pass at a time, and
\* releases the lock on return
\* a thread that is not inside put
IdlePut ==
    [pc |-> "idle", key |-> "k1", model |-> "m1", response |-> "r1",
     token_count |-> 1, now |-> 0, replaced |-> FALSE, swept |-> 0, kept |-> 0]

\* let now = Local::now(); let cutoff = now - ttl
PutStart(p, key, model, response, token_count) ==
    /\ calls[p].pc = "idle"
    /\ calls' = [calls EXCEPT ![p] = [pc |-> "waiting", key |-> key, model |-> model,
                                      response |-> response,
                                      token_count |-> token_count, now |-> localNow,
                                      replaced |-> FALSE, swept |-> 0, kept |-> 0]]
    /\ UNCHANGED <<memoryVars, last, cacheVars>>

\* self.entries.lock(), entries.insert, entries.retain
PutLock(p) ==
    LET c == calls[p]
        entry == [model |-> c.model, response |-> c.response,
                  token_count |-> c.token_count, created_at |-> c.now,
                  accessed_at |-> c.now, hit_count |-> 0]
        inserted == Inserted(cacheEntries, c.key, entry)
        kept == Retain(inserted, Cutoff(c.now, config.ttl_minutes))
    IN /\ c.pc = "waiting"
       /\ LockFree(calls)
       /\ cacheEntries' = kept
       /\ calls' = [calls EXCEPT ![p].pc = "locked",
                                 ![p].replaced = c.key \in DOMAIN cacheEntries,
                                 ![p].swept = Cardinality(DOMAIN inserted)
                                                - Cardinality(DOMAIN kept),
                                 ![p].kept = Cardinality(DOMAIN kept)]
       /\ UNCHANGED <<memoryVars, last, localNow, config>>

\* one pass of the while loop: the condition holds, min_by_key returns a
\* key, entries.remove(&k)
PutEvict(p) ==
    /\ calls[p].pc = "locked"
    /\ OverCapacity(Cardinality(DOMAIN cacheEntries), config.max_entries)
    /\ \E k \in LruKeys(cacheEntries) : cacheEntries' = Removed(cacheEntries, k)
    /\ UNCHANGED <<memoryVars, calls, last, localNow, config>>

\* the loop ends (condition false, or min_by_key returned None and the loop
\* breaks); Ok(()) is returned and the guard dropped
PutReturn(p) ==
    LET c == calls[p] IN
    /\ c.pc = "locked"
    /\ \/ ~OverCapacity(Cardinality(DOMAIN cacheEntries), config.max_entries)
       \/ LruKeys(cacheEntries) = {}
    /\ calls' = [calls EXCEPT ![p] = IdlePut]
    /\ last' = [op |-> "cache_put", key |-> c.key, model |-> c.model,
                response |-> c.response, token_count |-> c.token_count,
                now |-> c.now, replaced |-> c.replaced, swept |-> c.swept,
                evicted |-> c.kept - Cardinality(DOMAIN cacheEntries),
                ok |-> TRUE]
    /\ UNCHANGED <<memoryVars, cacheVars>>

\* ResponseCache::stats()
CacheStats ==
    LET K == DOMAIN cacheEntries IN
    /\ last' = [op |-> "cache_stats", ok |-> TRUE,
                entry_count |-> Cardinality(K),
                total_hits |-> SumOver([k \in K |-> cacheEntries[k].hit_count], K),
                tokens_saved |->
                    SumOver([k \in K |-> TokensSaved(cacheEntries[k])], K)]
    /\ UNCHANGED <<memoryVars, calls, cacheVars>>

\* variant: the count is read after entries.clear()
CacheClearCountsAfter ==
    /\ cacheEntries' = NoEntries
    /\ last' = [op |-> "cache_clear", ok |-> TRUE, count |-> 0]
    /\ UNCHANGED <<memoryVars, calls, localNow, config>>

\* ResponseCache::clear()
CacheClear ==
    /\ cacheEntries' = NoEntries
    /\ last' = [op |-> "cache_clear", ok |-> TRUE,
                count |-> Cardinality(DOMAIN cacheEntries)]
    /\ UNCHANGED <<memoryVars, calls, localNow, config>>

\* Local::now() has moved on by a minute
Tick ==
    /\ localNow' = localNow + 1
    /\ UNCHANGED <<memoryVars, calls, last, cacheEntries, config>>

\* the calls of one step, over given input sets
StoreOver(Ks, Cs, Cats, Sids, Es, Dbs, maxStores) ==
    /\ nextId < maxStores
    /\ \E a \in Agents, k \in Ks, c \in Cs, cat \in Cats, sid \in Sids, e \in Es,
          dbOk \in Dbs :
           Store(a, k, c, cat, sid, e, dbOk)

ForgetOver(Ks, Dbs) == \E a \in Agents, k \in Ks, dbOk \in Dbs : Forget(a, k, dbOk)

RecallOver(Qs, Sids, Es, Dbs) ==
    \E a \in Agents, q \in Qs, limit \in 0..MaxLimit, sid \in Sids, qv \in Es,
       dbOk \in Dbs :
        Recall(a, q, limit, sid, qv, dbOk)

GetOver(Ks, Dbs) ==
    \E a \in Agents, k \in Ks, bump \in BumpOutcomes, dbOk \in Dbs :
        /\ \A r \in RowsOf(rows, a, k) : r.access_count <= MaxAccess
        /\ Get(a, k, bump, dbOk)

ListOver(Cats, Sids, Dbs) ==
    \E a \in Agents, cat \in Cats, sid \in Sids, dbOk \in Dbs : List(a, cat, sid, dbOk)

CountOver(Dbs) == \E a \in Agents, dbOk \in Dbs : Count(a, dbOk)

\* ---- the store: store and forget with every outcome of the embedding
\* provider and of the backing store
StoreStep ==
    StoreOver(Keys, Contents, Categories, Sessions \cup {None},
              {<<5, 0>>, NoVector}, BOOLEAN, MaxStores)

ForgetStep == ForgetOver(Keys, BOOLEAN)

NextStore == StoreStep \/ ForgetStep

SpecStore == Init /\ [][NextStore]_vars

\* ---- recall over the tables that store and forget build
RecallStoreStep ==
    StoreOver(Keys, {<<"a", "B">>}, {Core}, Sessions \cup {None},
              Vectors \cup {NoVector}, {TRUE}, MaxRecallStores)

RecallForgetStep == ForgetOver(Keys, {TRUE})

RecallStep == RecallOver(Queries, Sessions \cup {None}, QueryVectors \cup {NoVector}, {TRUE})

Next == RecallStoreStep \/ RecallForgetStep \/ RecallStep

Spec == Init /\ [][Next]_vars

\* ---- get, list, count and forget over the tables that store builds; the
\* custom label has an upper-case letter, the session filter is optional
ApiCategories == {Core, Custom("Notes")}

ApiStoreStep ==
    StoreOver(Keys, {<<"c">>}, ApiCategories, Sessions \cup {None}, {<<5, 0>>, NoVector},
              {TRUE}, MaxApiStores)

ApiForgetStep == ForgetOver(Keys, BOOLEAN)

GetStep == GetOver(Keys, BOOLEAN)

ListStep == ListOver(ApiCategories \cup {NoCategory}, Sessions \cup {None}, {TRUE})

CountStep == CountOver({TRUE})

NextApi == ApiStoreStep \/ ApiForgetStep \/ GetStep \/ ListStep \/ CountStep

SpecApi == Init /\ [][NextApi]_vars

\* ---- NumTasks store calls issued together, on any keys
Tasks == 1..NumTasks

ConcKeys == {<<"k">>, <<"B">>, <<"c">>}

\* what a call passes besides its key: two calls differ in all of content,
\* category and session, or in none
ConcPayloads ==
    {[content |-> <<"a", "B">>, category |-> Core, session_id |-> "s1"],
     [content |-> <<"c">>, category |-> Custom("notes"), session_id |-> None]}

NewCall(agent, key, payload) ==
    [pc |-> "start", agent |-> agent, key |-> key, content |-> payload.content,
     category |-> payload.category, session_id |-> payload.session_id,
     embedding |-> NoVector, memory_id |-> 0, ok |-> FALSE, at |-> 0]

InitConc ==
    /\ rows = {}
    /\ clock = 0
    /\ nextId = 0
    /\ last = [op |-> "init"]
    /\ calls \in [Tasks -> {NewCall(a, k, pl) :
                                a \in Agents, k \in ConcKeys, pl \in ConcPayloads}]
    /\ cacheEntries = NoEntries
    /\ localNow = 0
    /\ config = DefaultConfig

StoreEmbedStep == \E p \in Tasks, e \in {<<5, 0>>, NoVector} : StoreEmbed(p, e)

StoreWriteStep == \E p \in Tasks, dbOk \in BOOLEAN : StoreWrite(p, dbOk)

NextConc == StoreEmbedStep \/ StoreWriteStep

SpecConc == InitConc /\ [][NextConc]_vars

\* ---- the response cache: put, get, stats and clear as the clock advances
CacheKeys == {"k1", "k2", "k3"}

\* (model, response, token_count) of the put calls
CachePayloads == {<<"m1", "r1", 1>>, <<"m2", "r2", 3>>}

InitCacheWith(Configs) ==
    /\ rows = {}
    /\ clock = 0
    /\ nextId = 0
    /\ last = [op |-> "init"]
    /\ calls = NoCalls
    /\ cacheEntries = NoEntries
    /\ localNow = 0
    /\ config \in Configs

CachePutOver(Ks, Ps) == \E k \in Ks, pl \in Ps : CachePut(k, pl[1], pl[2], pl[3])

\* a get that would hit is taken only below MaxHits hits; misses always
CacheGetOver(Ks) ==
    \E k \in Ks :
        /\ (/\ k \in DOMAIN cacheEntries
            /\ Live(cacheEntries[k], Cutoff(localNow, config.ttl_minutes)))
              => cacheEntries[k].hit_count < MaxHits
        /\ CacheGet(k)

TickUpTo(maxNow) == localNow < maxNow /\ Tick

CacheConfigs ==
    {[ttl_minutes |-> t, max_entries |-> m] : t \in 0..MaxTtl, m \in 0..MaxEntries}

InitCache == InitCacheWith(CacheConfigs)

CachePutStep == CachePutOver(CacheKeys, CachePayloads)

CacheGetStep == CacheGetOver(CacheKeys)

TickStep == TickUpTo(MaxNow)

NextCache == CachePutStep \/ CacheGetStep \/ CacheStats \/ CacheClear \/ TickStep

SpecCache == InitCache /\ [][NextCache]_vars

\* ---- the caches of the test lru_eviction (ttl 60, at most 3 entries) and
\* smaller ones, used with five keys
LruTtl == 60
LruMaxEntries == 3
LruCacheKeys == CacheKeys \cup {"k4", "k5"}

InitLru ==
    InitCacheWith({[ttl_minutes |-> LruTtl, max_entries |-> m] : m \in 0..LruMaxEntries})

LruPutStep == CachePutOver(LruCacheKeys, {<<"m1", "r1", 1>>})

LruGetStep == CacheGetOver(LruCacheKeys)

LruTickStep == TickUpTo(MaxLruNow)

NextLru == LruPutStep \/ LruGetStep \/ CacheStats \/ CacheClear \/ LruTickStep

SpecLru == InitLru /\ [][NextLru]_vars

\* ---- put and get under a strictly advancing clock and without expiry:
\* every call reads Local::now() later than every access before it
ClockAdvanced == \A k \in DOMAIN cacheEntries : cacheEntries[k].accessed_at < localNow

InitHit ==
    InitCacheWith({[ttl_minutes |-> LruTtl, max_entries |-> m] : m \in 1..MaxEntries})

HitPutStep == ClockAdvanced /\ CachePutOver(CacheKeys, {<<"m1", "r1", 1>>})

HitGetStep == ClockAdvanced /\ CacheGetOver(CacheKeys)

HitTickStep == TickUpTo(MaxHitNow)

NextHit == HitPutStep \/ HitGetStep \/ HitTickStep

SpecHit == InitHit /\ [][NextHit]_vars

\* ---- two OracleMemory instances bound to different agents on one table,
\* using the same key
BothAgents == {"agentA", "agentB"}

AgentStoreStep ==
    /\ nextId < MaxAgentStores
    /\ \E a \in BothAgents, e \in {<<5, 0>>, NoVector}, dbOk \in BOOLEAN :
          Store(a, <<"k">>, <<"c">>, Core, None, e, dbOk)

AgentForgetStep == \E a \in BothAgents : Forget(a, <<"k">>, TRUE)

AgentGetStep ==
    \E a \in BothAgents, bump \in BumpOutcomes :
        /\ \A r \in RowsOf(rows, a, <<"k">>) : r.access_count <= MaxAccess
        /\ Get(a, <<"k">>, bump, TRUE)

AgentListStep == \E a \in BothAgents : List(a, NoCategory, None, TRUE)

AgentRecallStep ==
    \E a \in BothAgents, limit \in 1..MaxLimit, qv \in {<<3, 4>>, NoVector} :
        Recall(a, <<"k">>, limit, None, qv, TRUE)

AgentCountStep == \E a \in BothAgents : Count(a, TRUE)

NextAgents ==
    \/ AgentStoreStep
    \/ AgentForgetStep
    \/ AgentGetStep
    \/ AgentListStep
    \/ AgentRecallStep
    \/ AgentCountStep

SpecAgents == Init /\ [][NextAgents]_vars

\* ---- NumPutters threads calling put again and again, under every
\* configuration; a thread inside put keeps running
Putters == 1..NumPutters

InitPut ==
    /\ rows = {}
    /\ clock = 0
    /\ nextId = 0
    /\ last = [op |-> "init"]
    /\ calls = [p \in Putters |-> IdlePut]
    /\ cacheEntries = NoEntries
    /\ localNow = 0
    /\ config \in {[ttl_minutes |-> t, max_entries |-> m] :
                      t \in {1, LruTtl}, m \in 0..MaxEntries}

PutStartStep == \E p \in Putters, k \in CacheKeys : PutStart(p, k, "m1", "r1", 1)

PutLockStep == \E p \in Putters : PutLock(p)

PutEvictStep == \E p \in Putters : PutEvict(p)

PutReturnStep == \E p \in Putters : PutReturn(p)

PutTickStep == TickUpTo(MaxPutNow)

NextPut == PutStartStep \/ PutLockStep \/ PutEvictStep \/ PutReturnStep \/ PutTickStep

SpecPut == InitPut /\ [][NextPut]_vars /\ WF_vars(PutEvictStep \/ PutReturnStep)

\* ---- NumGetters threads calling get on the key of one put, as in the
\* test cache_concurrent_reads_no_panic
Getters == 1..NumGetters

NewGet(key) ==
    [pc |-> "start", key |-> key, now |-> 0, present |-> FALSE, hit |-> FALSE,
     seen |-> 0, response |-> None]

InitGets ==
    /\ rows = {}
    /\ clock = 0
    /\ nextId = 0
    /\ last = [op |-> "init"]
    /\ calls = [p \in Getters |-> NewGet("k1")]
    /\ cacheEntries = NoEntries
    /\ localNow = 0
    /\ config \in {[ttl_minutes |-> t, max_entries |-> 1] : t \in 1..2}

\* cache.put(&key, ...) before the threads are spawned
GetsPutStep ==
    /\ \A p \in Getters : calls[p].pc = "start"
    /\ last.op = "init"
    /\ \E pl \in CachePayloads : CachePut("k1", pl[1], pl[2], pl[3])

GetStartStep == \E p \in Getters : last.op # "init" /\ GetStart(p)

GetLockStep == \E p \in Getters : GetLock(p)

GetFinishStep == \E p \in Getters : GetFinish(p)

GetsTickStep == TickUpTo(MaxGetNow)

NextGets ==
    GetsPutStep \/ GetStartStep \/ GetLockStep \/ GetFinishStep \/ GetsTickStep

SpecGets == InitGets /\ [][NextGets]_vars

\* ---- NumConnTasks calls, each a store, a recall or a get of the key "k",
\* running concurrently on one connection.  Every closure that can run is
\* run by the blocking pool, and a closure that holds the lock returns.
ConnTasks == 1..NumConnTasks

ConnOps == {"store", "recall", "get"}

NewConnCall(op) ==
    [pc |-> "start", op |-> op, agent |-> "agentA", key |-> <<"k">>,
     content |-> <<"c">>, category |-> Core, session_id |-> None,
     embedding |-> NoVector, embedded |-> FALSE, memory_id |-> 0, ok |-> FALSE,
     guard |-> "none"]

InitConn ==
    /\ rows = {}
    /\ clock = 0
    /\ nextId = 0
    /\ last = [op |-> "init"]
    /\ calls \in [ConnTasks -> {NewConnCall(op) : op \in ConnOps}]
    /\ cacheEntries = NoEntries
    /\ localNow = 0
    /\ config = DefaultConfig

EmbedAcquireStep == \E p \in ConnTasks : EmbedAcquire(p)

EmbedReturnStep ==
    \E p \in ConnTasks :
        \E embedding \in (IF calls[p].op = "store" THEN {<<5, 0>>, NoVector}
                          ELSE {<<3, 4>>, NoVector}) :
            EmbedReturn(p, embedding)

DbAcquireStep == \E p \in ConnTasks : DbAcquire(p)

DbReturnStoreStep == \E p \in ConnTasks, dbOk \in BOOLEAN : DbReturnStore(p, dbOk)

DbReturnRecallStep == \E p \in ConnTasks, dbOk \in BOOLEAN : DbReturnRecall(p, 1, dbOk)

DbReturnGetStep ==
    \E p \in ConnTasks, bump \in BumpOutcomes, dbOk \in BOOLEAN :
        DbReturnGet(p, bump, dbOk)

NextConn ==
    \/ EmbedAcquireStep
    \/ EmbedReturnStep
    \/ DbAcquireStep
    \/ DbReturnStoreStep
    \/ DbReturnRecallStep
    \/ DbReturnGetStep

SpecConn == InitConn /\ [][NextConn]_vars /\ WF_vars(NextConn)

\* ---- cache_key applied to every triple of short strings
KeyStrings == UNION {[1..n -> KeyAlphabet] : n \in 0..MaxFieldLen}

KeyPrompts == {NoPrompt} \cup {SomePrompt(s) : s \in KeyStrings}

InitKey ==
    /\ rows = {}
    /\ clock = 0
    /\ nextId = 0
    /\ last \in [op : {"cache_key_args"}, model : KeyStrings,
                 system_prompt : KeyPrompts, user_prompt : KeyStrings]
    /\ calls = NoCalls
    /\ cacheEntries = NoEntries
    /\ localNow = 0
    /\ config = DefaultConfig

CacheKeyStep ==
    /\ last.op = "cache_key_args"
    /\ CacheKeyCall(last.model, last.system_prompt, last.user_prompt)

NextKey == CacheKeyStep

SpecKey == InitKey /\ [][NextKey]_vars

\* ---------------------------------------------------------------- properties
\* q occurs in s as a contiguous run of characters
Contains(s, q) ==
    \E i \in 0..(Len(s) - Len(q)) : SubSeq(s, i + 1, i + Len(q)) = q

\* q is a case-insensitive substring of the row's content or of its key
LiteralMatch(r, q) ==
    \/ Contains(Lower(r.content), Lower(q))
    \/ Contains(Lower(r.key), Lower(q))

\* the agent's rows a recall with this query and session filter is about
LiteralMatches(t, agent, q, session_id) ==
    {r \in t : r.agent_id = agent /\ SessionMatch(r, session_id) /\ LiteralMatch(r, q)}

\* cosine similarity of two vectors of norm 5, in hundredths, clamped at 0
Similarity(u, v) == IF 4 * Dot(u, v) > 0 THEN 4 * Dot(u, v) ELSE 0

RowWithId(t, id) == CHOOSE r \in t : r.memory_id = id

\* C1: after any sequence of store and forget calls the table holds at most
\* one row per (agent, key), and right after a successful store(k, c) there
\* is exactly one row for k and its content is c.
C1_OneEntryPerKey ==
    /\ \A a \in Agents, k \in Keys : Cardinality(RowsOf(rows, a, k)) <= 1
    /\ (last.op = "store" /\ last.ok) =>
          \E r \in rows : /\ RowsOf(rows, last.agent, last.key) = {r}
                          /\ r.content = last.content

\* a store that hit an existing key (the row is older than this write) and
\* changed its content while another key is present too
C1_Witness ==
    /\ last.op = "store" /\ last.ok
    /\ \E r \in RowsOf(rows, last.agent, last.key) :
          r.created_at < r.updated_at /\ r.updated_at = clock
    /\ Cardinality(rows) = 2

\* C2: a recall with a non-empty query and limit >= 1 returns a non-empty
\* list whenever some row of the agent that passes the session filter
\* contains the query as a case-insensitive substring of content or key.
C2_SubstringMatchIsFound ==
    (/\ last.op = "recall" /\ last.dbOk
     /\ last.query # <<>> /\ last.limit >= 1
     /\ LiteralMatches(rows, last.agent, last.query, last.session_id) # {})
    => (last.ok /\ last.entries # <<>>)

\* the query was embedded, rows with vectors exist, all of them are below
\* the threshold, and the keyword fallback found the literal match
C2_Witness ==
    /\ last.op = "recall" /\ last.query # <<>> /\ last.qvec # NoVector
    /\ VectorCandidates(rows, last.agent, last.session_id) # {}
    /\ \E r \in rows : r.embedding = NoVector
    /\ last.path = "keyword"
    /\ LiteralMatches(rows, last.agent, last.query, last.session_id) # {}
    /\ last.entries # <<>>

\* C3: recall with an empty query returns an empty list.
C3_EmptyQueryReturnsEmpty ==
    (last.op = "recall" /\ last.ok /\ last.query = <<>>) => last.entries = <<>>

\* C4: every entry recall returns through the vector path has the clamped
\* cosine similarity of its row to the query vector as score, and that score
\* is at least 0.3.
C4_VectorScores ==
    (last.op = "recall" /\ last.path = "vector") =>
        \A i \in 1..Len(last.entries) :
            LET e == last.entries[i] IN
            /\ \E r \in rows : r.memory_id = e.id /\ r.embedding # NoVector
            /\ e.score = Similarity(RowWithId(rows, e.id).embedding, last.qvec)
            /\ e.score >= MIN_SIMILARITY

\* a vector-path answer from which a candidate below the threshold was dropped
C4_Witness ==
    /\ last.op = "recall" /\ last.path = "vector" /\ last.limit = 2
    /\ Len(last.entries) = 1
    /\ \E r \in VectorCandidates(rows, last.agent, last.session_id) :
          Similarity(r.embedding, last.qvec) < MIN_SIMILARITY

\* C5: when the query embedding failed, recall with a non-empty query
\* succeeds and returns the rows that contain the query as a case-insensitive
\* substring of content or key and pass the session filter: all of them when
\* they are at most limit, else the limit most recently updated, most recent
\* first; every returned entry has score 0.5.
C5_KeywordFallbackResult ==
    (last.op = "recall" /\ last.dbOk /\ last.query # <<>> /\ last.qvec = NoVector) =>
        LET M == LiteralMatches(rows, last.agent, last.query, last.session_id)
            n == Len(last.entries)
            ids == {last.entries[i].id : i \in 1..n}
        IN /\ last.ok
           /\ n = Min(last.limit, Cardinality(M))
           /\ ids \subseteq {r.memory_id : r \in M}
           /\ Cardinality(ids) = n
           /\ \A i \in 1..n : last.entries[i].score = KEYWORD_SCORE
           /\ \A i \in 1..n, j \in 1..n :
                 i < j => RowWithId(rows, last.entries[i].id).updated_at
                            >= RowWithId(rows, last.entries[j].id).updated_at
           /\ \A r \in M : r.memory_id \notin ids =>
                 \A i \in 1..n :
                    RowWithId(rows, last.entries[i].id).updated_at >= r.updated_at

\* C6: the keyword fallback runs only when the vector path produced nothing:
\* if a vector candidate reaches the threshold (and limit >= 1) every
\* returned entry carries its vector similarity, and no result holds both
\* vector-scored entries and keyword entries (score 0.5).
C6_NoMixedResult ==
    (last.op = "recall" /\ last.ok) =>
        LET n == Len(last.entries)
            vectorScored(e) ==
                /\ last.qvec # NoVector
                /\ RowWithId(rows, e.id).embedding # NoVector
                /\ e.score = Similarity(RowWithId(rows, e.id).embedding, last.qvec)
        IN /\ (/\ last.qvec # NoVector /\ last.limit >= 1
               /\ \E r \in VectorCandidates(rows, last.agent, last.session_id) :
                     Similarity(r.embedding, last.qvec) >= MIN_SIMILARITY)
              => (n >= 1 /\ \A i \in 1..n : vectorScored(last.entries[i]))
           /\ \/ \A i \in 1..n : vectorScored(last.entries[i])
              \/ \A i \in 1..n : last.entries[i].score = KEYWORD_SCORE

\* a vector-path answer for a query that the keyword query would match too
C6_Witness ==
    /\ last.op = "recall" /\ last.path = "vector" /\ last.limit = 2
    /\ last.entries # <<>>
    /\ KeywordCandidates(rows, last.agent, last.query, last.session_id) # {}

\* C7: recall returns at most limit entries on either path, and none when
\* limit is 0.
C7_AtMostLimit ==
    (last.op = "recall" /\ last.ok) =>
        /\ Len(last.entries) <= last.limit
        /\ (last.limit = 0 => last.entries = <<>>)

\* a keyword answer cut to limit = 1 although two rows match
C7_Witness ==
    /\ last.op = "recall" /\ last.limit = 1 /\ Len(last.entries) = 1
    /\ last.path = "keyword"
    /\ Cardinality(KeywordCandidates(rows, last.agent, last.query,
                                     last.session_id)) = 2

\* C8: a store whose backing-store write succeeded returns Ok, also when the
\* embedding request failed, and the row for the key then holds the content,
\* category and session_id of the call.
C8_StoreSucceedsWithoutEmbedding ==
    (last.op = "store" /\ last.dbOk) =>
        /\ last.ok
        /\ \E r \in RowsOf(rows, last.agent, last.key) :
              /\ r.content = last.content
              /\ parse_category(r.category) = last.category
              /\ r.session_id = last.session_id

\* a successful store whose embedding request failed
C8_Witness ==
    /\ last.op = "store" /\ last.embedding = NoVector /\ last.dbOk /\ last.ok
    /\ \E r \in RowsOf(rows, last.agent, last.key) : r.content = last.content

\* C9: after a store whose embedding request failed, the row of that key has
\* no embedding vector, so the vector query of recall does not rank it.
C9_NoVectorAfterFailedEmbedding ==
    (last.op = "store" /\ last.ok /\ last.embedding = NoVector) =>
        \A r \in RowsOf(rows, last.agent, last.key) :
            /\ r.embedding = NoVector
            /\ r \notin VectorCandidates(rows, last.agent, None)

\* C10: a successful store on an existing key keeps the row's memory_id and
\* sets content, category and session_id from the call; a successful store on
\* a new key creates a row whose memory_id no row has and none had before
\* (all ids drawn so far are at most nextId).
C10_IdKeptOrFresh ==
    [][(last'.op = "store" /\ last'.ok /\ nextId' = nextId + 1) =>
          LET old == RowsOf(rows, last'.agent, last'.key)
              new == RowsOf(rows', last'.agent, last'.key)
          IN /\ new # {}
             /\ \A r \in new : /\ r.content = last'.content
                               /\ r.category = CategoryToString(last'.category)
                               /\ r.session_id = last'.session_id
             /\ old # {} => {r.memory_id : r \in new} = {r.memory_id : r \in old}
             /\ old = {} => \A r \in new :
                               /\ r.memory_id > nextId
                               /\ r.memory_id \notin {x.memory_id : x \in rows}
             /\ \A r \in rows : r.memory_id <= nextId]_vars

\* a key stored, forgotten and stored again: the row has a later id than the
\* first one, and the other key was overwritten in place
C10_Witness ==
    /\ last.op = "store" /\ last.ok
    /\ \E r \in rows : r.memory_id = 1 /\ r.created_at < r.updated_at
    /\ \E r \in rows : r.memory_id = 3

\* C11: the timestamp of an entry returned by get, list or recall is the time
\* of the latest write of its row (the row's updated_at, as formatted), also
\* after a store on an existing key.
C11_TimestampIsLatestWrite ==
    /\ (last.op = "get" /\ last.found) =>
          last.entry.timestamp = TO_CHAR(RowWithId(rows, last.entry.id).updated_at)
    /\ (last.op \in {"list", "recall"} /\ last.ok) =>
          \A i \in 1..Len(last.entries) :
              last.entries[i].timestamp
                  = TO_CHAR(RowWithId(rows, last.entries[i].id).updated_at)

\* the keys an agent has rows for
LiveKeys(t, agent) == {r.key : r \in {x \in t : x.agent_id = agent}}

\* C12: count() is the number of distinct keys stored and not forgotten: a
\* successful store adds its key to the agent's keys (nothing when the key is
\* there already), a successful forget takes its key out, no other call
\* changes them, and count returns their number.
C12_CountIsLiveKeys ==
    [][\A a \in Agents :
          /\ LiveKeys(rows', a) =
                IF a = last'.agent /\ last'.ok /\ last'.op = "store"
                THEN LiveKeys(rows, a) \cup {last'.key}
                ELSE IF a = last'.agent /\ last'.ok /\ last'.op = "forget"
                THEN LiveKeys(rows, a) \ {last'.key}
                ELSE LiveKeys(rows, a)
          /\ (a = last'.agent /\ last'.ok /\ last'.op = "count") =>
                last'.count = Cardinality(LiveKeys(rows', a))]_vars

\* count answers 1 after a key was stored twice
C12_Witness ==
    /\ last.op = "count" /\ last.ok /\ last.count = 1
    /\ \E r \in rows : r.created_at < r.updated_at

\* C13: get(k) with a working SELECT returns Ok: the entry of the key's row
\* when there is one, whatever became of the access-counter update and of
\* its commit, and None when there is none.
C13_GetIgnoresBumpFailure ==
    (last.op = "get" /\ last.dbOk) =>
        /\ last.ok
        /\ last.found <=> (RowsOf(rows, last.agent, last.key) # {})
        /\ last.found =>
              \E r \in RowsOf(rows, last.agent, last.key) :
                  last.entry = [id |-> r.memory_id, key |-> r.key,
                                content |-> r.content,
                                category |-> parse_category(r.category),
                                timestamp |-> TO_CHAR(r.created_at),
                                session_id |-> r.session_id, score |-> None]
        /\ ~last.found => last.entry = None

\* a get that found its row although the commit of the counter update failed
C13_Witness ==
    /\ last.op = "get" /\ last.found /\ last.bump = "commit_failed"
    /\ last.entry.key = last.key

\* C14: a successful forget(k) returns true exactly when the key had a row;
\* afterwards the key has none (get(k) finds nothing) and the agent has one
\* row less; when the key had none, the table is unchanged.
C14_ForgetRemovesTheKey ==
    [][(last'.op = "forget" /\ last'.ok) =>
          LET mine(t) == {r \in t : r.agent_id = last'.agent}
              existed == \E r \in mine(rows) : r.key = last'.key
          IN /\ last'.deleted <=> existed
             /\ ~ \E r \in mine(rows') : r.key = last'.key
             /\ existed => Cardinality(mine(rows')) = Cardinality(mine(rows)) - 1
             /\ ~existed => rows' = rows]_vars

\* a forget that deleted one key and left the other
C14_Witness ==
    /\ last.op = "forget" /\ last.ok /\ last.deleted
    /\ Cardinality(rows) = 1
    /\ nextId = 2

\* C15: list returns exactly the agent's entries that match the filters:
\* with a category filter those whose category (as the store reports it)
\* equals the filter, with a session filter those of that session, with both
\* those matching both, with none all; most recently updated first, each
\* without a score, and each carrying the category asked for.
C15_ListReturnsMatchingEntries ==
    (last.op = "list" /\ last.ok) =>
        LET n == Len(last.entries)
            ids == {last.entries[i].id : i \in 1..n}
            M == {r \in rows :
                    /\ r.agent_id = last.agent
                    /\ (last.category = NoCategory
                           \/ parse_category(r.category) = last.category)
                    /\ (last.session_id = None \/ r.session_id = last.session_id)}
        IN /\ ids = {r.memory_id : r \in M}
           /\ Cardinality(ids) = n
           /\ \A i \in 1..n :
                 /\ last.entries[i].score = None
                 /\ last.category = NoCategory \/ last.entries[i].category = last.category
           /\ \A i \in 1..n, j \in 1..n :
                 i < j => RowWithId(rows, last.entries[i].id).updated_at
                            >= RowWithId(rows, last.entries[j].id).updated_at

\* the calls on key k that have returned Ok
Written(k) == {p \in Tasks : calls[p].key = k /\ calls[p].pc = "done" /\ calls[p].ok}

\* C16: whatever the interleaving of concurrent store calls on one key, the
\* key has exactly one row once a call on it has returned Ok, and the row's
\* content, category and session_id are all those of one call: the one whose
\* write was the last.
C16_ConcurrentStoresOneWriter ==
    \A k \in ConcKeys :
        Written(k) # {} =>
            /\ Cardinality({r \in rows : r.key = k}) = 1
            /\ \A r \in {x \in rows : x.key = k} :
                  \E p \in Written(k) :
                      /\ r.content = calls[p].content
                      /\ r.category = CategoryToString(calls[p].category)
                      /\ r.session_id = calls[p].session_id
                      /\ r.updated_at = calls[p].at
                      /\ \A q \in Written(k) : calls[q].at <= calls[p].at

\* two calls with different payloads on one key have both returned Ok
C16_Witness ==
    /\ \A p \in Tasks : calls[p].pc = "done" /\ calls[p].ok
    /\ \E p \in Tasks, q \in Tasks :
          /\ calls[p].key = calls[q].key
          /\ calls[p].content # calls[q].content
    /\ \E r \in rows : r.created_at < r.updated_at

\* C17: when concurrent store calls on pairwise distinct keys have all
\* returned Ok, the table has one row per call and each key's row holds the
\* content of the call on that key.
C17_ConcurrentStoresAllTakeEffect ==
    (/\ \A p \in Tasks : calls[p].pc = "done" /\ calls[p].ok
     /\ \A p \in Tasks, q \in Tasks : p # q => calls[p].key # calls[q].key)
    => /\ Cardinality(rows) = NumTasks
       /\ \A p \in Tasks :
             \E r \in rows : /\ r.key = calls[p].key
                             /\ r.agent_id = calls[p].agent
                             /\ r.content = calls[p].content

\* all calls have returned Ok, on pairwise distinct keys, with both payloads
C17_Witness ==
    /\ \A p \in Tasks : calls[p].pc = "done" /\ calls[p].ok
    /\ \A p \in Tasks, q \in Tasks : p # q => calls[p].key # calls[q].key
    /\ \E p \in Tasks, q \in Tasks : calls[p].content # calls[q].content
    /\ Cardinality(rows) = NumTasks

\* C18: after every put, get, stats and clear the cache holds at most
\* max_entries entries; in particular putting five keys into a cache with
\* max_entries = 3 leaves at most 3.
C18_AtMostMaxEntries ==
    Cardinality(DOMAIN cacheEntries) <= config.max_entries

\* a put into the cache of at most 3 entries that left it full, with entries
\* of two different ages
C18_Witness ==
    /\ last.op = "cache_put" /\ config.max_entries = LruMaxEntries
    /\ Cardinality(DOMAIN cacheEntries) = LruMaxEntries
    /\ \E j \in DOMAIN cacheEntries, k \in DOMAIN cacheEntries :
          cacheEntries[j].created_at < cacheEntries[k].created_at

\* C19: in a cache with max_entries = 0 every put returns Ok and leaves the
\* cache empty, stats reports no entry, and every get returns None.
C19_ZeroCapacityStaysEmpty ==
    config.max_entries = 0 =>
        /\ DOMAIN cacheEntries = {}
        /\ last.op = "cache_put" => last.ok
        /\ last.op = "cache_stats" => last.entry_count = 0
        /\ last.op = "cache_get" => (last.ok /\ ~last.hit /\ last.response = None)

\* a put into a cache with max_entries = 0 whose entry the expiry sweep kept
C19_Witness ==
    /\ config.max_entries = 0 /\ config.ttl_minutes > 0
    /\ last.op = "cache_put" /\ last.ok
    /\ localNow > 0
    /\ DOMAIN cacheEntries = {}

\* C20: a get on a key whose entry has created_at <= now - ttl returns None
\* and removes the entry; a get on a key whose entry has created_at >
\* now - ttl returns that entry's response.
C20_GetNeverReturnsExpired ==
    [][(last'.op = "cache_get" /\ localNow' = localNow
          /\ last'.key \in DOMAIN cacheEntries) =>
          LET e == cacheEntries[last'.key] IN
          IF e.created_at <= localNow - config.ttl_minutes
          THEN /\ ~last'.hit /\ last'.response = None
               /\ last'.key \notin DOMAIN cacheEntries'
          ELSE last'.hit /\ last'.response = e.response]_vars

\* a get that found an entry put one minute ago expired (ttl = 1) and took
\* it out, while a younger entry stayed
C20_Witness ==
    /\ last.op = "cache_get" /\ last.removed /\ ~last.hit
    /\ config.ttl_minutes = 1
    /\ last.key \notin DOMAIN cacheEntries
    /\ DOMAIN cacheEntries # {}

\* C21: in a cache with ttl = 0 a put leaves no entry for its key, and the
\* get on that key that follows the put returns None.
C21_ZeroTtlPutThenGetMisses ==
    [][config.ttl_minutes = 0 =>
          /\ (last'.op = "cache_put" /\ localNow' = localNow) =>
                last'.key \notin DOMAIN cacheEntries'
          /\ (last.op = "cache_put" /\ last'.op = "cache_get"
                /\ last'.key = last.key) =>
                (last'.ok /\ ~last'.hit /\ last'.response = None)]_vars

\* a put into a cache with ttl = 0 and room for entries, after the clock has
\* moved: the cache holds nothing
C21_Witness ==
    /\ config.ttl_minutes = 0 /\ config.max_entries > 0
    /\ last.op = "cache_put" /\ last.ok /\ last.now > 0
    /\ last.key \notin DOMAIN cacheEntries

\* C22: in a cache with ttl > 0 and max_entries >= 1, a get(k) that directly
\* follows put(k, model, r, t), with no time elapsed in between, returns r,
\* whatever the cache held before the put.
C22_GetAfterPutHits ==
    [][(/\ config.ttl_minutes > 0 /\ config.max_entries >= 1
        /\ last.op = "cache_put" /\ last'.op = "cache_get"
        /\ last'.key = last.key /\ localNow = last.now /\ localNow' = localNow)
       => (last'.hit /\ last'.response = last.response)]_vars

\* C23: a put on a key that is in the cache replaces its entry: afterwards
\* the key's entry holds the model, response and token_count of this put,
\* created_at = accessed_at = the time of the put and hit_count = 0, and the
\* cache has no more entries than before.
C23_PutReplacesEntry ==
    [][(/\ last'.op = "cache_put" /\ localNow' = localNow
        /\ last'.key \in DOMAIN cacheEntries)
       => /\ last'.replaced
          /\ last'.key \in DOMAIN cacheEntries'
          /\ cacheEntries'[last'.key] =
                [model |-> last'.model, response |-> last'.response,
                 token_count |-> last'.token_count, created_at |-> localNow,
                 accessed_at |-> localNow, hit_count |-> 0]
          /\ Cardinality(DOMAIN cacheEntries') <= Cardinality(DOMAIN cacheEntries)]_vars

\* a put that replaced an entry, made a minute after the cache's first put,
\* with another entry beside it
C23_Witness ==
    /\ last.op = "cache_put" /\ last.replaced /\ last.now > 0
    /\ last.key \in DOMAIN cacheEntries
    /\ cacheEntries[last.key].hit_count = 0
    /\ cacheEntries[last.key].created_at = last.now
    /\ Cardinality(DOMAIN cacheEntries) = 2

\* sum of hit_count * weight over the entries of c, key by key
HitsTimes(c, weight(_)) ==
    LET at(k) == IF k \in DOMAIN c THEN c[k].hit_count * weight(c[k]) ELSE 0
    IN at("k1") + at("k2") + at("k3")

One(entry) == 1
TokenCount(entry) == entry.token_count

\* C24: stats returns the number of entries, the sum of their hit_count and
\* the sum of hit_count * token_count; (0, 0, 0) on an empty cache and
\* (1, n, n * t) when the only entry was put with t tokens and hit n times.
C24_StatsSums ==
    last.op = "cache_stats" =>
        /\ last.ok
        /\ last.entry_count = Cardinality(DOMAIN cacheEntries)
        /\ last.total_hits = HitsTimes(cacheEntries, One)
        /\ last.tokens_saved = HitsTimes(cacheEntries, TokenCount)
        /\ DOMAIN cacheEntries = {} =>
              (last.entry_count = 0 /\ last.total_hits = 0 /\ last.tokens_saved = 0)
        /\ \A k \in DOMAIN cacheEntries :
              DOMAIN cacheEntries = {k} =>
                  /\ last.entry_count = 1
                  /\ last.total_hits = cacheEntries[k].hit_count
                  /\ last.tokens_saved
                        = cacheEntries[k].hit_count * cacheEntries[k].token_count

\* stats over two entries, one of them hit, put with 3 tokens
C24_Witness ==
    /\ last.op = "cache_stats" /\ last.entry_count = 2
    /\ last.total_hits >= 1 /\ last.tokens_saved >= 3
    /\ \E k \in DOMAIN cacheEntries : cacheEntries[k].hit_count = 0

\* C25: clear returns the number of entries the cache held and leaves it
\* empty; on an empty cache stats returns (0, 0, 0) and every get is a miss
\* that leaves it empty, so this lasts until the next put.
C25_ClearEmptiesCache ==
    [][/\ (last'.op = "cache_clear" /\ localNow' = localNow) =>
             /\ last'.ok
             /\ last'.count = Cardinality(DOMAIN cacheEntries)
             /\ DOMAIN cacheEntries' = {}
       /\ (DOMAIN cacheEntries = {} /\ last'.op = "cache_stats") =>
             /\ last'.entry_count = 0
             /\ last'.total_hits = 0
             /\ last'.tokens_saved = 0
       /\ (DOMAIN cacheEntries = {} /\ last'.op = "cache_get") =>
             (~last'.hit /\ last'.response = None /\ DOMAIN cacheEntries' = {})
       /\ (DOMAIN cacheEntries = {} /\ last'.op # "cache_put") =>
             DOMAIN cacheEntries' = {}]_vars

\* a clear that removed two entries
C25_Witness ==
    /\ last.op = "cache_clear" /\ last.count = 2
    /\ DOMAIN cacheEntries = {}

\* the entry of the getters' key is in the cache and was live at the clock
\* reading of every get call that has started
LiveForAll(k) ==
    /\ k \in DOMAIN cacheEntries
    /\ \A p \in Getters :
          calls[p].pc # "start" =>
              calls[p].now - config.ttl_minutes < cacheEntries[k].created_at

\* C26: concurrent get calls on one live key raise the entry's hit_count by
\* one each, in every interleaving: the count after the put (0) plus the
\* number of calls that have returned, and each returned call got the stored
\* response.
C26_ConcurrentGetsCountEveryHit ==
    LiveForAll("k1") =>
        LET done == {p \in Getters : calls[p].pc = "done"} IN
        /\ cacheEntries["k1"].hit_count = Cardinality(done)
        /\ \A p \in done :
              calls[p].hit /\ calls[p].response = cacheEntries["k1"].response

\* all get calls have returned, having read the clock at different minutes,
\* and the entry has counted every one of them
C26_Witness ==
    /\ LiveForAll("k1")
    /\ \A p \in Getters : calls[p].pc = "done"
    /\ \E p \in Getters, q \in Getters : calls[p].now # calls[q].now
    /\ cacheEntries["k1"].hit_count = NumGetters

\* C27: cache_key is a function of its arguments whose value is 64 lower-case
\* hex characters, and a triple that differs from the call's in exactly one
\* field (the model, the user prompt, or the text of a system prompt present
\* in both) has a different key.
C27_KeySeparatesSingleFieldChanges ==
    last.op = "cache_key" =>
        LET m == last.model
            s == last.system_prompt
            u == last.user_prompt
        IN /\ last.key = cache_key(m, s, u)
           /\ Len(last.key) = 64
           /\ \A i \in 1..64 : \E d \in 1..16 : last.key[i] = HexDigits[d]
           /\ \A m2 \in KeyStrings \ {m} : cache_key(m2, s, u) # last.key
           /\ \A u2 \in KeyStrings \ {u} : cache_key(m, s, u2) # last.key
           /\ s.some =>
                 \A t2 \in KeyStrings \ {s.text} :
                     cache_key(m, SomePrompt(t2), u) # last.key

\* a call with a system prompt and with the separator character in its fields
C27_Witness ==
    /\ last.op = "cache_key"
    /\ last.system_prompt = SomePrompt(<<"a", "|">>)
    /\ last.model = <<"|">>
    /\ last.user_prompt = <<"|", "a">>
    /\ Len(last.key) = 64

\* C28: the bytes hashed for a call without a system prompt differ from the
\* bytes hashed for the same model and user prompt with the empty system
\* prompt, and so do the keys.
C28_AbsentDiffersFromEmpty ==
    (last.op = "cache_key" /\ ~last.system_prompt.some) =>
        /\ last.bytes # KeyBytes(last.model, SomePrompt(<<>>), last.user_prompt)
        /\ last.key # cache_key(last.model, SomePrompt(<<>>), last.user_prompt)

\* C29: the category label round-trips: after a store, the entry that get,
\* list and recall build from the written row (row_to_entry) carries the
\* category that was stored, Custom(L) as Custom(L); and an entry returned
\* by get carries a category that some store wrote.
C29_CategoryRoundTrips ==
    /\ (last.op = "store" /\ last.ok) =>
          \A r \in rows :
              (r.agent_id = last.agent /\ r.key = last.key) =>
                  row_to_entry(r, None).category = last.category
    /\ (last.op = "get" /\ last.ok /\ last.found) =>
          last.entry.category \in ApiCategories

\* C30: in store and recall the embedding request has completed before the
\* call's own statement starts; the connection is locked only by a closure
\* that is running (the embedding request or the statement), never by a
\* call that is waiting for its embedding or for its turn; so while a call
\* is unfinished some call can take a step, and every call returns.
C30_EmbeddingBeforeStatementNoDeadlock ==
    /\ [](\A p \in ConnTasks :
            /\ (calls[p].pc = "db" /\ calls[p].op \in {"store", "recall"}) =>
                  calls[p].embedded
            /\ calls[p].guard = "embed" <=> calls[p].pc = "embedding"
            /\ calls[p].guard = "db" <=> calls[p].pc = "db"
            /\ \A q \in ConnTasks \ {p} :
                  calls[p].guard = "none" \/ calls[q].guard = "none")
    /\ <>(\A p \in ConnTasks : calls[p].pc = "done")

\* a store holds the connection for its MERGE while a recall, its embedding
\* done, waits for the lock
C30_Witness ==
    \E p \in ConnTasks, q \in ConnTasks :
        /\ calls[p].op = "store" /\ calls[p].guard = "db"
        /\ calls[q].op = "recall" /\ calls[q].pc = "embedded" /\ calls[q].embedded

\* the specified vector procedure: drop every candidate with similarity
\* below the threshold, sort by similarity descending, take the first limit
SpecifiedVectorEntries(t, agent, qvec, limit, session_id) ==
    LET sim(r) == similarity_from_distance(VectorDistance(r.embedding, qvec))
        K == {r \in VectorCandidates(t, agent, session_id) : sim(r) >= MIN_SIMILARITY}
    IN {LET f == FetchFirst(s, limit)
        IN [i \in 1..Len(f) |-> row_to_entry(f[i], sim(f[i]))] :
            s \in SortedSeqs(K, [r \in K |-> 0 - sim(r)])}

\* C31: on the vector path (fetch the first limit rows by ascending
\* distance, then drop those below the threshold) recall returns a list that
\* the specified procedure (drop, sort by similarity descending, take the
\* first limit) can return, and over the same table the two procedures have
\* the same possible results; an empty vector result (the keyword fallback
\* ran) means the specified procedure returns nothing either.
C31_VectorPathMatchesSpecifiedOrder ==
    (last.op = "recall" /\ last.ok /\ last.qvec # NoVector) =>
        LET specified == SpecifiedVectorEntries(rows, last.agent, last.qvec,
                                                last.limit, last.session_id)
            coded == {VectorEntries(f, last.qvec) :
                        f \in VectorQuery(rows, last.agent, last.qvec,
                                          last.limit, last.session_id)}
        IN /\ coded = specified
           /\ IF last.path = "vector" THEN last.entries \in specified
              ELSE specified = {<<>>}

\* a recall with limit 1 over a near and a far entry returned the near one
C31_Witness ==
    /\ last.op = "recall" /\ last.ok /\ last.path = "vector" /\ last.limit = 1
    /\ Cardinality(VectorCandidates(rows, last.agent, last.session_id)) = 2
    /\ \E r \in VectorCandidates(rows, last.agent, last.session_id) :
          similarity_from_distance(VectorDistance(r.embedding, last.qvec)) < MIN_SIMILARITY
    /\ Len(last.entries) = 1

\* the map a put step works on once the entry is inserted and the expired
\* entries are swept, read from the state before the step and the call
\* recorded after it
KeptByPut(c, call, ttl_minutes) ==
    Retain(Inserted(c, call.key,
                    [model |-> call.model, response |-> call.response,
                     token_count |-> call.token_count, created_at |-> call.now,
                     accessed_at |-> call.now, hit_count |-> 0]),
           Cutoff(call.now, ttl_minutes))

\* a step of put
IsPutStep == last'.op = "cache_put" /\ localNow' = localNow

\* C32: when a put leaves more than max_entries unexpired entries, the LRU
\* loop removes exactly count - max_entries of them and leaves the others
\* as they were; no removed entry was accessed later than an entry that
\* remains, and the cache ends with exactly max_entries entries.
C32_LruRemovesLeastRecentlyAccessed ==
    [][IsPutStep =>
          LET kept == KeptByPut(cacheEntries, last', config.ttl_minutes)
              count == Cardinality(DOMAIN kept)
              removed == DOMAIN kept \ DOMAIN cacheEntries'
          IN count > config.max_entries =>
                /\ DOMAIN cacheEntries' \subseteq DOMAIN kept
                /\ \A k \in DOMAIN cacheEntries' : cacheEntries'[k] = kept[k]
                /\ Cardinality(removed) = count - config.max_entries
                /\ last'.evicted = count - config.max_entries
                /\ Cardinality(DOMAIN cacheEntries') = config.max_entries
                /\ \A r \in removed, s \in DOMAIN cacheEntries' :
                      kept[r].accessed_at <= kept[s].accessed_at]_vars

\* a put into a full cache of three evicted one entry and kept an older
\* entry that a hit had refreshed
C32_Witness ==
    /\ last.op = "cache_put" /\ last.evicted = 1 /\ ~last.replaced
    /\ config.max_entries = LruMaxEntries
    /\ Cardinality(DOMAIN cacheEntries) = LruMaxEntries
    /\ \E k \in DOMAIN cacheEntries :
          /\ cacheEntries[k].hit_count > 0
          /\ cacheEntries[k].created_at < cacheEntries[k].accessed_at

\* C33: with a strictly advancing clock and no expiry a hit makes its entry
\* the most recently accessed one; a put never evicts an entry while keeping
\* one that was accessed earlier; so the put of a new key that follows a hit
\* on A and evicts one entry keeps A (max_entries = 2: put(A), put(B),
\* get(A), put(C) leaves A and C).
C33_HitProtectsFromNextEviction ==
    /\ []((last.op = "cache_get" /\ last.hit) =>
            /\ last.key \in DOMAIN cacheEntries
            /\ \A b \in DOMAIN cacheEntries \ {last.key} :
                  cacheEntries[b].accessed_at < cacheEntries[last.key].accessed_at)
    /\ [][IsPutStep =>
            /\ \A a \in DOMAIN cacheEntries \ {last'.key},
                  b \in DOMAIN cacheEntries \ {last'.key} :
                  (/\ cacheEntries[b].accessed_at < cacheEntries[a].accessed_at
                   /\ a \notin DOMAIN cacheEntries') => b \notin DOMAIN cacheEntries'
            /\ (/\ last.op = "cache_get" /\ last.hit
                /\ last'.key \notin DOMAIN cacheEntries
                /\ last'.evicted = 1
                /\ Cardinality(DOMAIN cacheEntries) >= 2) =>
                   /\ last.key \in DOMAIN cacheEntries'
                   /\ cacheEntries'[last.key] = cacheEntries[last.key]
                   /\ last'.key \in DOMAIN cacheEntries']_vars

\* put(k1), put(k2), get(k1), put(k3) with max_entries = 2 has left k1 and k3
C33_Witness ==
    /\ last.op = "cache_put" /\ last.key = "k3" /\ last.evicted = 1
    /\ config.max_entries = 2
    /\ DOMAIN cacheEntries = {"k1", "k3"}
    /\ cacheEntries["k1"].hit_count = 1
    /\ cacheEntries["k1"].created_at = 0
    /\ cacheEntries["k1"].accessed_at = 2

\* C34: right after a put the cache holds no entry created at or before
\* that put's now - ttl, whatever its key; and the LRU loop has removed
\* entries only if the unexpired entries (those left plus those it removed)
\* were more than max_entries, in which case exactly max_entries are left.
C34_PutSweepsAllThenEvicts ==
    last.op = "cache_put" =>
        /\ \A k \in DOMAIN cacheEntries :
              cacheEntries[k].created_at > last.now - config.ttl_minutes
        /\ last.evicted > 0 =>
              /\ Cardinality(DOMAIN cacheEntries) + last.evicted > config.max_entries
              /\ Cardinality(DOMAIN cacheEntries) = config.max_entries

\* a put of a new key swept the expired entry of another key and evicted
\* nothing
C34_Witness ==
    /\ last.op = "cache_put" /\ ~last.replaced /\ last.swept = 1 /\ last.evicted = 0
    /\ last.key \in DOMAIN cacheEntries
    /\ Cardinality(DOMAIN cacheEntries) = 2

\* a step of get
IsGetStep == last'.op = "cache_get" /\ localNow' = localNow

\* C35: get(k) changes only what its outcome requires: a hit raises
\* hit_count of k's entry by one and sets its accessed_at to now, leaving
\* its other fields and every other entry as they were; a miss on an absent
\* key changes nothing; a miss on an expired key removes the entry of k and
\* nothing else, other expired entries included.
C35_GetChangesOnlyItsEntry ==
    [][IsGetStep =>
          LET k == last'.key
              others == DOMAIN cacheEntries \ {k}
          IN /\ config' = config
             /\ \A j \in others :
                   j \in DOMAIN cacheEntries' /\ cacheEntries'[j] = cacheEntries[j]
             /\ DOMAIN cacheEntries' \subseteq DOMAIN cacheEntries
             /\ last'.hit =>
                   /\ k \in DOMAIN cacheEntries /\ k \in DOMAIN cacheEntries'
                   /\ cacheEntries'[k] =
                         [cacheEntries[k] EXCEPT !.hit_count = @ + 1,
                                                 !.accessed_at = localNow]
             /\ (~last'.hit /\ k \notin DOMAIN cacheEntries) =>
                   cacheEntries' = cacheEntries
             /\ (~last'.hit /\ k \in DOMAIN cacheEntries) =>
                   /\ last'.removed
                   /\ DOMAIN cacheEntries' = others]_vars

\* a miss removed the expired entry of its key and left the expired entry
\* of another key in the cache
C35_Witness ==
    /\ last.op = "cache_get" /\ ~last.hit /\ last.removed
    /\ last.key \notin DOMAIN cacheEntries
    /\ \E j \in DOMAIN cacheEntries :
          ~Live(cacheEntries[j], Cutoff(localNow, config.ttl_minutes))

\* C36: every entry the keyword fallback of recall returns contains the
\* query, taken literally (also when it holds '%' or '_'), as a
\* case-insensitive substring of its content or of its key.
C36_KeywordMatchIsLiteral ==
    (last.op = "recall" /\ last.ok /\ last.path = "keyword") =>
        \A i \in 1..Len(last.entries) :
            \/ Contains(Lower(last.entries[i].content), Lower(last.query))
            \/ Contains(Lower(last.entries[i].key), Lower(last.query))

\* C37: over triples with a system prompt the bytes fed to the hash are
\* injective: a triple (model, system prompt, user prompt) different from the
\* call's gives different bytes, also when fields hold the separator '|'.
C37_HashedBytesInjective ==
    (last.op = "cache_key" /\ last.system_prompt.some) =>
        \A m2 \in KeyStrings, s2 \in KeyStrings, u2 \in KeyStrings :
            <<m2, s2, u2>> # <<last.model, last.system_prompt.text, last.user_prompt>>
                => KeyBytes(m2, SomePrompt(s2), u2) # last.bytes

\* C38: hits do not prolong an entry's life: created_at of an entry changes
\* only when a put on its key sets it to that put's now, and a get at or
\* after created_at + ttl is a miss that removes the entry, whatever its
\* hit_count and accessed_at.
C38_HitsDoNotProlongLife ==
    [][/\ \A j \in DOMAIN cacheEntries \cap DOMAIN cacheEntries' :
             cacheEntries'[j].created_at # cacheEntries[j].created_at =>
                 /\ IsPutStep /\ last'.key = j
                 /\ cacheEntries'[j].created_at = localNow
       /\ (/\ IsGetStep
           /\ last'.key \in DOMAIN cacheEntries
           /\ localNow >= cacheEntries[last'.key].created_at + config.ttl_minutes) =>
              /\ ~last'.hit
              /\ last'.response = None
              /\ last'.key \notin DOMAIN cacheEntries']_vars

\* an entry that was hit after its put has reached its expiry time although
\* its last access is less than ttl ago
C38_Witness ==
    /\ last.op = "cache_get" /\ last.hit
    /\ last.key \in DOMAIN cacheEntries
    /\ LET entry == cacheEntries[last.key] IN
          /\ entry.hit_count >= 1
          /\ entry.created_at < entry.accessed_at
          /\ localNow >= entry.created_at + config.ttl_minutes
          /\ localNow < entry.accessed_at + config.ttl_minutes

\* C39: every put terminates and releases the lock of the map, for every
\* cache state and configuration, max_entries = 0 included: a pass of the
\* LRU loop removes exactly one entry, the call returns with the count at or
\* under max_entries, and a call that holds the lock eventually returns.
C39_PutTerminates ==
    /\ [][\A p \in Putters :
             /\ (/\ calls[p].pc = "locked" /\ calls'[p].pc = "locked"
                 /\ cacheEntries' # cacheEntries) =>
                   /\ Cardinality(DOMAIN cacheEntries') = Cardinality(DOMAIN cacheEntries) - 1
                   /\ DOMAIN cacheEntries' \subseteq DOMAIN cacheEntries
             /\ (calls[p].pc = "locked" /\ calls'[p].pc = "idle") =>
                   /\ cacheEntries' = cacheEntries
                   /\ Cardinality(DOMAIN cacheEntries) <= config.max_entries
                   /\ LockFree(calls')]_vars
    /\ \A p \in Putters : (calls[p].pc = "locked") ~> (calls[p].pc = "idle")

\* a put under max_entries = 0 has returned after its loop removed the
\* entry it had inserted
C39_Witness ==
    /\ last.op = "cache_put" /\ last.evicted = 1
    /\ config.max_entries = 0
    /\ DOMAIN cacheEntries = {}
    /\ \A p \in Putters : calls[p].pc = "idle"

\* the rows written under one agent
OwnRows(t, agent) == {r \in t : r.agent_id = agent}

\* C40: agents are isolated: a call issued for agent A leaves the rows of
\* every other agent as they were, and its result and its effect on A's rows
\* are those the call has on the table with all other agents' rows taken
\* out, also when another agent holds a row under the same key.
C40_AgentsAreIsolated ==
    [][last'.op \in {"store", "forget", "get", "list", "recall", "count"} =>
          LET a == last'.agent
              c == last'
              own == OwnRows(rows, a)
          IN /\ rows' \ OwnRows(rows', a) = rows \ own
             /\ (c.op = "store" /\ c.dbOk) =>
                   OwnRows(rows', a) =
                       MergeRows(own, a, c.key, c.content, CategoryToString(c.category),
                                 c.session_id, c.embedding, c.memory_id, clock')
             /\ c.op = "forget" =>
                   /\ OwnRows(rows', a) = DeleteRows(own, a, c.key)
                   /\ c.deleted = (\E r \in own : r.key = c.key)
             /\ c.op = "get" =>
                   /\ c.found = (\E r \in own : r.key = c.key)
                   /\ c.found => \E r \in own : r.key = c.key /\ c.entry = row_to_entry(r, None)
                   /\ OwnRows(rows', a) \in {own, BumpAccess(own, a, c.key)}
             /\ c.op = "list" =>
                   /\ c.entries \in {ListEntries(f) :
                                        f \in ListQuery(own, a, c.category, c.session_id)}
                   /\ rows' = rows
             /\ c.op = "recall" =>
                   /\ c.entries \in
                         {RecallEntries(v, k, c.qvec) :
                            v \in (IF c.qvec # NoVector
                                   THEN VectorQuery(own, a, c.qvec, c.limit, c.session_id)
                                   ELSE {<<>>}),
                            k \in KeywordQuery(own, a, c.query, c.limit, c.session_id)}
                   /\ rows' = rows
             /\ c.op = "count" => (c.count = Cardinality(own) /\ rows' = rows)]_vars

\* agent A has forgotten its entry under a key that agent B holds too, and
\* B's row is still there
C40_Witness ==
    /\ last.op = "forget" /\ last.deleted /\ last.agent = "agentA"
    /\ \E r \in rows : r.agent_id = "agentB" /\ r.key = last.key
    /\ OwnRows(rows, "agentA") = {}

====
